---- MODULE Spec2Model ----
(***************************************************************************)
(* A model of the download -> transform/flag -> filter pipeline of the     *)
(* waste-finder package: the date-range partitioner, the poller/fetcher,   *)
(* the download stage with its recovery pass, the row flagger with its     *)
(* keyword patterns, the master combiner, the secondary filter with its    *)
(* run summary, the orchestrator, and the archive paths the stages share.  *)
(*                                                                         *)
(* The module holds several specifications over one set of variables; a    *)
(* specification drives one group of variables and leaves the other groups *)
(* at their idle values.                                                   *)
(***************************************************************************)
EXTENDS Integers, Sequences, FiniteSets, TLC

VARIABLES
    \* create_date_ranges
    start_date, end_date, interval_months, current_start, date_ranges, cdr_pc,
    \* combine_csv_files
    comb_type, comb_files, comb_columns, comb_pc, comb_result, master_file,
    \* keyword patterns
    kw_desc, kw_pc, kw_match,
    \* process_csv_file
    flag_table, today_date, flag_pc, active_df, flagged_df, flagged_path,
    \* fetch_download: the files under contract_data, the frame of the call
    \* in progress, and what the calls have done so far
    disk, f_pc, f_job, f_url, attempts, f_result,
    f_existed, f_prior, f_ready, f_opened, heads, gets, downloads, returned_path,
    \* download_contracts.main
    m_pc, n_ranges, file_urls, successful_downloads, m_idx, still_missing, m_exit,
    recovery_calls, obtained, m_log,
    \* orchestrator.main
    o_pc, o_departments, o_award_types, skip_download, process_existing,
    o_d, o_t, o_combos, dept_results, results, o_exit, download_codes, masters_written,
    entered, io_log, stage_log,
    \* filter_by_amount_and_keywords
    filt_table, min_amount, filt_pc, filt_output, filt_result,
    \* process_all_files
    pa_dir, pa_award_type, pa_pc, csv_files, pa_idx, filtered_files, summaries,
    \* the archives of one pair on their way from download to transform
    lay_pair, lay_fs, lay_dirs, lay_pc, lay_code, lay_stored, lay_seen,
    \* transform_data.main and process_zip_files
    pz_zips, pz_pc, pz_idx, temp_dir, pz_pending, flagged_files, out_dir, pz_flagged,
    pz_success, pz_master, pz_del, pz_result, pz_exit,
    \* fetch_download and download_file of windsurf_project
    ws_disk, ws_pc, ws_attempt, ws_heads, ws_gets, ws_result, ws_existed

cdrVars == <<start_date, end_date, interval_months, current_start, date_ranges, cdr_pc>>
combVars == <<comb_type, comb_files, comb_columns, comb_pc, comb_result, master_file>>

kwVars == <<kw_desc, kw_pc, kw_match>>

flagVars == <<flag_table, today_date, flag_pc, active_df, flagged_df, flagged_path>>

fetchVars == <<disk, f_pc, f_job, f_url, attempts, f_result,
               f_existed, f_prior, f_ready, f_opened, heads, gets, downloads, returned_path>>
mainVars == <<m_pc, n_ranges, file_urls, successful_downloads, m_idx, still_missing, m_exit,
              recovery_calls, obtained, m_log>>

orchVars == <<o_pc, o_departments, o_award_types, skip_download, process_existing,
              o_d, o_t, o_combos, dept_results, results, o_exit, download_codes,
              masters_written, entered, io_log, stage_log>>

filtVars == <<filt_table, min_amount, filt_pc, filt_output, filt_result>>

paVars == <<pa_dir, pa_award_type, pa_pc, csv_files, pa_idx, filtered_files, summaries>>

layVars == <<lay_pair, lay_fs, lay_dirs, lay_pc, lay_code, lay_stored, lay_seen>>

pzVars == <<pz_zips, pz_pc, pz_idx, temp_dir, pz_pending, flagged_files, out_dir, pz_flagged,
            pz_success, pz_master, pz_del, pz_result, pz_exit>>

wsVars == <<ws_disk, ws_pc, ws_attempt, ws_heads, ws_gets, ws_result, ws_existed>>

vars == <<cdrVars, combVars, kwVars, flagVars, fetchVars, mainVars, orchVars, filtVars, paVars,
          layVars, pzVars, wsVars>>

\* What the actions of one group leave alone.
notCdrVars ==
    <<combVars, kwVars, flagVars, fetchVars, mainVars, orchVars, filtVars, paVars, layVars,
     pzVars, wsVars>>
notCombVars ==
    <<cdrVars, kwVars, flagVars, fetchVars, mainVars, orchVars, filtVars, paVars, layVars,
     pzVars, wsVars>>
notKwVars ==
    <<cdrVars, combVars, flagVars, fetchVars, mainVars, orchVars, filtVars, paVars, layVars,
     pzVars, wsVars>>
notFlagVars ==
    <<cdrVars, combVars, kwVars, fetchVars, mainVars, orchVars, filtVars, paVars, layVars,
     pzVars, wsVars>>
\* The download stage: fetch_download runs inside download_contracts.main.
notDownloadVars == <<cdrVars, combVars, kwVars, flagVars, orchVars, filtVars, paVars, layVars,
     pzVars, wsVars>>
notOrchVars ==
    <<cdrVars, combVars, kwVars, flagVars, fetchVars, mainVars, filtVars, paVars, layVars,
     pzVars, wsVars>>
notFiltVars ==
    <<cdrVars, combVars, kwVars, flagVars, fetchVars, mainVars, orchVars, paVars, layVars,
     pzVars, wsVars>>
notPaVars ==
    <<cdrVars, combVars, kwVars, flagVars, fetchVars, mainVars, orchVars, filtVars, layVars,
     pzVars, wsVars>>
notLayVars ==
    <<cdrVars, combVars, kwVars, flagVars, fetchVars, mainVars, orchVars, filtVars, paVars,
     pzVars, wsVars>>

notPzVars ==
    <<cdrVars, combVars, kwVars, flagVars, fetchVars, mainVars, orchVars, filtVars, paVars,
      layVars, wsVars>>
notWsVars ==
    <<cdrVars, combVars, kwVars, flagVars, fetchVars, mainVars, orchVars, filtVars, paVars,
      layVars, pzVars>>

\* A nullable value is <<>> (NaN / None) or <<v>>.
Null == <<>>
Some(v) == <<v>>

Min(a, b) == IF a <= b THEN a ELSE b

(***************************************************************************)
(* Calendar arithmetic: datetime, timedelta(days=1) and                    *)
(* relativedelta(months=n).  A date is a tuple <<year, month, day>>.       *)
(***************************************************************************)
BaseYear == 2024
YearSpan == 1
MaxInterval == 3

IsLeap(y) == (y % 4 = 0 /\ y % 100 # 0) \/ y % 400 = 0

DaysInMonth(y, m) ==
    IF m = 2 THEN (IF IsLeap(y) THEN 29 ELSE 28)
    ELSE IF m \in {4, 6, 9, 11} THEN 30 ELSE 31

DateLT(a, b) ==
    \/ a[1] < b[1]
    \/ a[1] = b[1] /\ a[2] < b[2]
    \/ a[1] = b[1] /\ a[2] = b[2] /\ a[3] < b[3]

\* Mutant: the interval is taken to be one month whatever n is.
AddMonths_IgnoresInterval(d, n) ==
    LET y == d[1] + (d[2] \div 12)
        m == (d[2] % 12) + 1
    IN  <<y, m, Min(d[3], DaysInMonth(y, m))>>

\* date + relativedelta(months=n): the month moves on, the day is clipped to
\* the length of the target month.
AddMonths(d, n) ==
    LET total == (d[2] - 1) + n
        y == d[1] + (total \div 12)
        m == (total % 12) + 1
    IN  <<y, m, Min(d[3], DaysInMonth(y, m))>>

\* date - timedelta(days=1)
MinusOneDay(d) ==
    IF d[3] > 1 THEN <<d[1], d[2], d[3] - 1>>
    ELSE IF d[2] > 1 THEN <<d[1], d[2] - 1, DaysInMonth(d[1], d[2] - 1)>>
    ELSE <<d[1] - 1, 12, 31>>

\* date + timedelta(days=1)
PlusOneDay(d) ==
    IF d[3] < DaysInMonth(d[1], d[2]) THEN <<d[1], d[2], d[3] + 1>>
    ELSE IF d[2] < 12 THEN <<d[1], d[2] + 1, 1>>
    ELSE <<d[1] + 1, 1, 1>>

\* The days of the month the inputs are drawn from: month starts, mid-month
\* and every possible month end.
InputDays == {1, 2, 15, 28, 29, 30, 31}

InputDates(years) ==
    {<<y, m, d>> : y \in years, m \in 1..12, d \in InputDays}
        \cap {dt \in (years \X (1..12) \X (1..31)) : dt[3] <= DaysInMonth(dt[1], dt[2])}

(***************************************************************************)
(* combine_csv_files(file_paths, output_file, file_type)                   *)
(*                                                                         *)
(* A flagged file is a sequence of rows as written by to_csv: the award    *)
(* id is text, the amount and the description are nullable.  The id        *)
(* column is award_id_piid (procurement) or award_id_fain (grant), the     *)
(* amount column current_total_value_of_award or total_obligated_amount.   *)
(* The description stands for the columns aggregated with "first"; a       *)
(* flagged file of procurement rows has a second monetary column,          *)
(* total_dollars_obligated.                                                *)
(***************************************************************************)
MaxFiles == 2
MaxRows == 3

AwardTypes == {"procurement", "grant"}

\* Award ids as they stand in a file: one that reads as a number, one that
\* does not.
IdTexts == {"12", "AB"}
LooksNumeric(t) == t \in {"12"}
\* Order of the id texts as strings.
StrRank(t) == IF t = "12" THEN 1 ELSE 2

Amounts == {Null, Some(1), Some(2)}
Descriptions == {Null, Some("d1"), Some("d2")}

FileRows == [id : IdTexts, amount : Amounts, desc : Descriptions]

\* The cells of total_dollars_obligated.
ObligatedAmounts == {Null, Some(1)}

\* columns_to_keep of process_csv_file: the rows of a procurement file carry
\* total_dollars_obligated as well.
ProcurementRows ==
    [id : IdTexts, amount : Amounts, desc : Descriptions, obligated : ObligatedAmounts]

RowsOfType(type) == IF type = "procurement" THEN ProcurementRows ELSE FileRows

\* pd.read_csv(f, low_memory=False): the type of the id column is inferred
\* per file. A column whose every value reads as a number is loaded as
\* integers, any other column as strings.
IdColumnIsNumeric(file) == \A i \in 1..Len(file) : LooksNumeric(file[i].id)

ReadCsvKey(file, i) ==
    IF IdColumnIsNumeric(file) THEN <<"int", file[i].id>> ELSE <<"str", file[i].id>>

ReadCsv(file) ==
    [i \in 1..Len(file) |->
        [c \in (DOMAIN file[i] \ {"id"}) \cup {"key"} |->
            IF c = "key" THEN ReadCsvKey(file, i) ELSE file[i][c]]]

\* pd.concat(frames, ignore_index=True)
RECURSIVE Concat(_)
Concat(frames) ==
    IF frames = <<>> THEN <<>> ELSE Head(frames) \o Concat(Tail(frames))

\* groupby sorts its keys; in a column of mixed type the numbers come before
\* the strings.
KeyLess(a, b) ==
    \/ a[1] = "int" /\ b[1] = "str"
    \/ a[1] = b[1] /\ StrRank(a[2]) < StrRank(b[2])

RECURSIVE SortedKeys(_)
SortedKeys(S) ==
    IF S = {} THEN <<>>
    ELSE LET k == CHOOSE x \in S : \A y \in S \ {x} : KeyLess(x, y)
         IN  <<k>> \o SortedKeys(S \ {k})

MaxOf(S) == CHOOSE x \in S : \A y \in S : y <= x

\* agg "max": the largest non-null value, NaN when there is none.
AggMax(vals) ==
    LET present == {vals[i][1] : i \in {j \in 1..Len(vals) : vals[j] # Null}}
    IN  IF present = {} THEN Null ELSE Some(MaxOf(present))

\* agg "first": the first non-null value, NaN when there is none.
AggFirst(vals) ==
    LET idx == {j \in 1..Len(vals) : vals[j] # Null}
    IN  IF idx = {} THEN Null ELSE vals[CHOOSE j \in idx : \A k \in idx : j <= k]

RowsOfKey(df, k) == SelectSeq(df, LAMBDA r : r.key = k)

Column(df, c) == [i \in 1..Len(df) |-> df[i][c]]

\* master_df.groupby(id).agg({...}).reset_index(), then to_csv: the key is
\* written as its text.  The result has the columns named in agg.
GroupByAgg(df) ==
    LET keys == SortedKeys({df[i].key : i \in 1..Len(df)})
    IN  [n \in 1..Len(keys) |->
            [id |-> keys[n][2],
             amount |-> AggMax(Column(RowsOfKey(df, keys[n]), "amount")),
             desc |-> AggFirst(Column(RowsOfKey(df, keys[n]), "desc"))]]

\* Without a branch for the award type the concatenation is written as is.
WriteAsIs(df) ==
    [i \in 1..Len(df) |->
        [c \in (DOMAIN df[i] \ {"key"}) \cup {"id"} |->
            IF c = "id" THEN df[i].key[2] ELSE df[i][c]]]

\* The table combine_csv_files writes for the files found to exist.
CombinedMaster(files, type) ==
    LET df == Concat([i \in 1..Len(files) |-> ReadCsv(files[i])])
    IN  IF type \in AwardTypes THEN GroupByAgg(df) ELSE WriteAsIs(df)

TotalRows(files) == Len(Concat(files))

\* The columns a flagged file of the award type may have: process_csv_file
\* keeps the columns of columns_to_keep that its table has, so a file may
\* lack the amount column that the other files have.
AllColumns(type) == DOMAIN (CHOOSE r \in RowsOfType(type) : TRUE)

FileSchemas(type) == {AllColumns(type), AllColumns(type) \ {"amount"}}

\* The rows of a file with the given columns. A column the file lacks is
\* NaN in every row of the file once pd.concat has aligned the columns.
RowsWithColumns(type, cols) ==
    {r \in RowsOfType(type) : \A c \in AllColumns(type) \ cols : r[c] = Null}

\* pd.concat aligns the frames on the union of their columns; it does not
\* raise when they differ.
ConcatColumns(columns) == UNION {columns[i] : i \in 1..Len(columns)}

\* The columns named in the agg dictionaries.
AggColumns == {"amount", "desc"}

CombInit ==
    /\ comb_type \in AwardTypes
    /\ comb_files = <<>>
    /\ comb_columns = <<>>
    /\ comb_pc = "build"
    /\ comb_result = FALSE
    /\ master_file = Null

CombIdle ==
    /\ comb_type = "procurement"
    /\ comb_files = <<>>
    /\ comb_columns = <<>>
    /\ comb_pc = "idle"
    /\ comb_result = FALSE
    /\ master_file = Null

\* A per-file flagged output comes into being with its first row
\* (process_csv_file writes no empty file) ...
CombNewFile ==
    /\ comb_pc = "build"
    /\ Len(comb_files) < MaxFiles
    /\ TotalRows(comb_files) < MaxRows
    /\ \E cols \in FileSchemas(comb_type) :
        \E r \in RowsWithColumns(comb_type, cols) :
            /\ comb_files' = Append(comb_files, <<r>>)
            /\ comb_columns' = Append(comb_columns, cols)
    /\ UNCHANGED <<comb_type, comb_pc, comb_result, master_file, notCombVars>>

\* ... and may hold further rows.
CombAddRow ==
    /\ comb_pc = "build"
    /\ Len(comb_files) >= 1
    /\ TotalRows(comb_files) < MaxRows
    /\ \E r \in RowsWithColumns(comb_type, comb_columns[Len(comb_columns)]) :
          comb_files' = [comb_files EXCEPT ![Len(comb_files)] = Append(@, r)]
    /\ UNCHANGED <<comb_type, comb_columns, comb_pc, comb_result, master_file, notCombVars>>

\* combine_csv_files with no file to combine: returns False.
CombineNothing ==
    /\ comb_pc = "build"
    /\ comb_files = <<>>
    /\ comb_pc' = "done"
    /\ comb_result' = FALSE
    /\ UNCHANGED <<comb_type, comb_files, comb_columns, master_file, notCombVars>>

\* combine_csv_files over the flagged files: writes the master, returns True.
Combine ==
    /\ comb_pc = "build"
    /\ comb_files # <<>>
    /\ AggColumns \subseteq ConcatColumns(comb_columns)
    /\ comb_pc' = "done"
    /\ comb_result' = TRUE
    /\ master_file' = Some(CombinedMaster(comb_files, comb_type))
    /\ UNCHANGED <<comb_type, comb_files, comb_columns, notCombVars>>

\* agg raises KeyError for a column that no file has; the handler of
\* combine_csv_files logs it and returns False, and nothing is written.
CombineRaises ==
    /\ comb_pc = "build"
    /\ comb_files # <<>>
    /\ ~(AggColumns \subseteq ConcatColumns(comb_columns))
    /\ comb_pc' = "done"
    /\ comb_result' = FALSE
    /\ UNCHANGED <<comb_type, comb_files, comb_columns, master_file, notCombVars>>

CombNext == CombNewFile \/ CombAddRow \/ CombineNothing \/ Combine \/ CombineRaises

(***************************************************************************)
(* setup_advanced_keywords / setup_keywords: the compiled pattern          *)
(*     re.compile(r"\b" + "|".join(re.escape(kw) ...) + r"\b", IGNORECASE) *)
(* and its use by Series.str.contains (a search anywhere in the text).     *)
(* A text is a tuple of one-character strings.                             *)
(***************************************************************************)
MaxFragments == 3

\* The keywords of setup_advanced_keywords, in list order.
Keywords ==
    << <<"D", "E", "I">>,
       <<"d", "i", "v", "e", "r", "s", "i", "t", "y">>,
       <<"e", "q", "u", "i", "t", "y">>,
       <<"i", "n", "c", "l", "u", "s", "i", "o", "n">>,
       <<"g", "e", "n", "d", "e", "r">>,
       <<"n", "o", "n", "-", "b", "i", "n", "a", "r", "y">> >>

\* The pieces the descriptions are made of.
Fragments ==
    { <<"n", "o", "n">>,
      <<"d", "i", "v", "e", "r", "s", "i", "t", "y">>,
      <<"D", "i", "v", "e", "r", "s", "i", "t", "y">>,
      <<"D", "E", "I">>,
      <<"-", "b", "i", "n", "a", "r", "y">>,
      <<" ">>,
      <<"s">> }

\* re.IGNORECASE
ToLower(c) ==
    CASE c = "D" -> "d"
      [] c = "E" -> "e"
      [] c = "I" -> "i"
      [] OTHER -> c

\* \w
IsWordChar(c) == c \notin {" ", "-"}

WordAt(text, p) == p >= 1 /\ p <= Len(text) /\ IsWordChar(text[p])

\* \b at the gap before position p
Boundary(text, p) == WordAt(text, p - 1) # WordAt(text, p)

\* The literal kw stands at position i of text, letter case ignored.
LiteralAt(text, i, kw) ==
    /\ i + Len(kw) - 1 <= Len(text)
    /\ \A n \in 1..Len(kw) : ToLower(text[i + n - 1]) = ToLower(kw[n])

\* The branches of the pattern: alternation binds loosest, so the leading \b
\* belongs to the first keyword alone and the trailing \b to the last alone.
BranchAt(text, i, kws, j) ==
    /\ LiteralAt(text, i, kws[j])
    /\ (j = 1 => Boundary(text, i))
    /\ (j = Len(kws) => Boundary(text, i + Len(kws[j])))

\* pattern.search(text) is not None
PatternSearch(text, kws) ==
    \E i \in 1..Len(text) : \E j \in 1..Len(kws) : BranchAt(text, i, kws, j)

KwInit ==
    /\ kw_desc = <<>>
    /\ kw_pc = "build"
    /\ kw_match = FALSE

KwIdle ==
    /\ kw_desc = <<>>
    /\ kw_pc = "idle"
    /\ kw_match = FALSE

\* The description under test, a sequence of fragments, grows by one.
KwAppend ==
    /\ kw_pc = "build"
    /\ Len(kw_desc) < MaxFragments
    /\ \E f \in Fragments : kw_desc' = Append(kw_desc, f)
    /\ UNCHANGED <<kw_pc, kw_match, notKwVars>>

\* description.str.contains(pattern)
KwSearch ==
    /\ kw_pc = "build"
    /\ kw_pc' = "done"
    /\ kw_match' = PatternSearch(Concat(kw_desc), Keywords)
    /\ UNCHANGED <<kw_desc, notKwVars>>

KwNext == KwAppend \/ KwSearch

(***************************************************************************)
(* process_csv_file(csv_path, output_dir, pattern, today_date, ...)        *)
(*                                                                         *)
(* A table has a set of columns and rows; a row carries the cell of the    *)
(* end-date column the code picks and its description.  Days are counted   *)
(* from an arbitrary origin; today_date is a date without time of day.     *)
(***************************************************************************)
MaxTableRows == 2
MaxDay == 3

Days == 1..MaxDay

PrimaryDateColumn == "period_of_performance_current_end_date"
FallbackDateColumn == "period_of_performance_end_date"
DescColumn == "prime_award_base_transaction_description"

TableColumns == {PrimaryDateColumn, FallbackDateColumn, DescColumn}

\* A cell of the end-date column: empty, text that is no date, or a date.
EndCells ==
    {[kind |-> "missing", day |-> 0], [kind |-> "text", day |-> 0]}
        \cup {[kind |-> "date", day |-> d] : d \in Days}

RowDescriptions ==
    { Null,
      Some(<<"s">>),
      Some(<<"d", "i", "v", "e", "r", "s", "i", "t", "y">>) }

TableRows == [end : EndCells, desc : RowDescriptions]

\* date_column: the primary name, else the fallback name, else none.
DateColumn(columns) ==
    IF PrimaryDateColumn \in columns THEN Some(PrimaryDateColumn)
    ELSE IF FallbackDateColumn \in columns THEN Some(FallbackDateColumn)
    ELSE Null

\* pd.to_datetime(cell, errors="coerce"): NaT for what is no date.
ToDatetime(cell) == IF cell.kind = "date" THEN Some(cell.day) ELSE Null

\* Mutant: the comparison admits the cutoff day itself.
IsAfter_OrEqual(ts, today) == ts # Null /\ ts[1] >= today

\* df[date_column] > today_date; a comparison with NaT is False.
IsAfter(ts, today) == ts # Null /\ ts[1] > today

Indices(rows) == [i \in 1..Len(rows) |-> i]

\* active_df, as the row labels it keeps.
ActiveRows(rows, today) ==
    SelectSeq(Indices(rows), LAMBDA i : IsAfter(ToDatetime(rows[i].end), today))

\* active_df[desc_column].fillna("").str.contains(pattern, na=False)
DescMatches(desc) ==
    PatternSearch(IF desc = Null THEN <<>> ELSE desc[1], Keywords)

\* flagged_df, as the row labels it keeps.
FlaggedRows(rows, active) ==
    SelectSeq(active, LAMBDA i : DescMatches(rows[i].desc))

FlagInit ==
    /\ flag_table \in [columns : SUBSET TableColumns, rows : {<<>>}]
    /\ today_date \in Days
    /\ flag_pc = "build"
    /\ active_df = Null
    /\ flagged_df = Null
    /\ flagged_path = Null

FlagIdle ==
    /\ flag_table = [columns |-> {}, rows |-> <<>>]
    /\ today_date = 1
    /\ flag_pc = "idle"
    /\ active_df = Null
    /\ flagged_df = Null
    /\ flagged_path = Null

\* The table to be loaded gets one more row.
FlagAddRow ==
    /\ flag_pc = "build"
    /\ Len(flag_table.rows) < MaxTableRows
    /\ \E r \in TableRows : flag_table' = [flag_table EXCEPT !.rows = Append(@, r)]
    /\ UNCHANGED <<today_date, flag_pc, active_df, flagged_df, flagged_path, notFlagVars>>

\* process_csv_file: no end-date column under either name, returns None.
FlagNoDateColumn ==
    /\ flag_pc = "build"
    /\ DateColumn(flag_table.columns) = Null
    /\ flag_pc' = "done"
    /\ UNCHANGED <<flag_table, today_date, active_df, flagged_df, flagged_path, notFlagVars>>

\* process_csv_file: no active row, returns None.
FlagNoActiveRows ==
    /\ flag_pc = "build"
    /\ DateColumn(flag_table.columns) # Null
    /\ ActiveRows(flag_table.rows, today_date) = <<>>
    /\ flag_pc' = "done"
    /\ active_df' = Some(<<>>)
    /\ UNCHANGED <<flag_table, today_date, flagged_df, flagged_path, notFlagVars>>

\* process_csv_file: active rows, but no description column, returns None.
FlagNoDescColumn ==
    /\ flag_pc = "build"
    /\ DateColumn(flag_table.columns) # Null
    /\ ActiveRows(flag_table.rows, today_date) # <<>>
    /\ DescColumn \notin flag_table.columns
    /\ flag_pc' = "done"
    /\ active_df' = Some(ActiveRows(flag_table.rows, today_date))
    /\ UNCHANGED <<flag_table, today_date, flagged_df, flagged_path, notFlagVars>>

\* process_csv_file: the keyword filter; a flagged file is written only when
\* a row matches.
FlagKeywords ==
    /\ flag_pc = "build"
    /\ DateColumn(flag_table.columns) # Null
    /\ ActiveRows(flag_table.rows, today_date) # <<>>
    /\ DescColumn \in flag_table.columns
    /\ LET active == ActiveRows(flag_table.rows, today_date)
           flagged == FlaggedRows(flag_table.rows, active)
       IN  /\ active_df' = Some(active)
           /\ flagged_df' = Some(flagged)
           /\ flagged_path' = IF flagged = <<>> THEN Null ELSE Some("flagged.csv")
    /\ flag_pc' = "done"
    /\ UNCHANGED <<flag_table, today_date, notFlagVars>>

FlagNext ==
    FlagAddRow \/ FlagNoDateColumn \/ FlagNoActiveRows \/ FlagNoDescColumn \/ FlagKeywords

(***************************************************************************)
(* fetch_download(file_url, department, start_date, end_date, type)        *)
(*                                                                         *)
(* A job stands for one (department, sub_award_type, start_date, end_date) *)
(* and names its file: the filename is built from exactly these fields.    *)
(* A file on disk is absent, partial (opened, body not fully written) or   *)
(* complete.  A url is Null (None) or Some(job).                           *)
(***************************************************************************)
MaxJobs == 2
max_attempts == 40

Jobs == 1..MaxJobs

\* Mutant: the existence check never finds the file.
FileExists_Never(d, job) == FALSE

\* os.path.exists(file_path)
FileExists(d, job) == d[job] # "absent"

\* Mutant: one readiness check too many.
PollAgain_OffByOne(a) == a <= max_attempts

\* while attempts < max_attempts
PollAgain(a) == a < max_attempts

\* Mutant: the partial download is left in place.
RemovePartial_Skipped(d, job) == d

\* if os.path.exists(file_path): os.remove(file_path)
RemovePartial(d, job) == IF FileExists(d, job) THEN [d EXCEPT ![job] = "absent"] ELSE d

FetchIdle ==
    /\ f_pc = "idle"
    /\ f_job = 1
    /\ f_url = Null
    /\ attempts = 0
    /\ f_result = Null
    /\ f_existed = FALSE
    /\ f_prior = FALSE
    /\ f_ready = FALSE
    /\ f_opened = FALSE
    /\ heads = 0
    /\ gets = 0

\* No file, no call: the state of the download stage while it is not run.
FetchInitIdle ==
    /\ disk = [j \in Jobs |-> "absent"]
    /\ downloads = [j \in Jobs |-> 0]
    /\ returned_path = [j \in Jobs |-> FALSE]
    /\ FetchIdle

FetchInit ==
    /\ disk \in [Jobs -> {"absent", "complete"}]
    /\ downloads = [j \in Jobs |-> 0]
    /\ returned_path = [j \in Jobs |-> FALSE]
    /\ FetchIdle

\* Entry of fetch_download up to the existence check: an existing file is
\* returned at once.
FetchBegin(job, url) ==
    /\ f_job' = job
    /\ f_url' = url
    /\ attempts' = 0
    /\ heads' = 0
    /\ gets' = 0
    /\ f_ready' = FALSE
    /\ f_opened' = FALSE
    /\ f_existed' = (disk[job] # "absent")
    /\ f_prior' = returned_path[job]
    /\ IF FileExists(disk, job)
       THEN /\ f_pc' = "returned"
            /\ f_result' = Some(job)
            /\ returned_path' = [returned_path EXCEPT ![job] = TRUE]
       ELSE /\ f_pc' = "poll"
            /\ f_result' = Null
            /\ UNCHANGED returned_path
    /\ UNCHANGED <<disk, downloads>>

\* check_file_status is False (status other than 200, or the HEAD request
\* failed: always so for a url of None): sleep, attempts += 1.
PollNotReady ==
    /\ f_pc = "poll"
    /\ PollAgain(attempts)
    /\ attempts' = attempts + 1
    /\ heads' = heads + 1
    /\ UNCHANGED <<disk, f_pc, f_job, f_url, f_result, f_existed, f_prior, f_ready,
                   f_opened, gets, downloads, returned_path, mainVars, notDownloadVars>>

\* check_file_status is True: break.
PollReady ==
    /\ f_pc = "poll"
    /\ PollAgain(attempts)
    /\ f_url # Null
    /\ heads' = heads + 1
    /\ f_ready' = TRUE
    /\ f_pc' = "get"
    /\ UNCHANGED <<disk, f_job, f_url, attempts, f_result, f_existed, f_prior,
                   f_opened, gets, downloads, returned_path, mainVars, notDownloadVars>>

\* The loop ran out: if attempts == max_attempts return None, else go on to
\* the download.
PollExhausted ==
    /\ f_pc = "poll"
    /\ ~PollAgain(attempts)
    /\ IF attempts = max_attempts
       THEN f_pc' = "returned" /\ f_result' = Null
       ELSE f_pc' = "get" /\ UNCHANGED f_result
    /\ UNCHANGED <<disk, f_job, f_url, attempts, f_existed, f_prior, f_ready,
                   f_opened, heads, gets, downloads, returned_path, mainVars, notDownloadVars>>

\* requests.get or raise_for_status raises a RequestException: nothing was
\* written, return None.
GetFails ==
    /\ f_pc = "get"
    /\ gets' = gets + 1
    /\ disk' = RemovePartial(disk, f_job)
    /\ f_pc' = "returned"
    /\ f_result' = Null
    /\ UNCHANGED <<f_job, f_url, attempts, f_existed, f_prior, f_ready,
                   f_opened, heads, downloads, returned_path, mainVars, notDownloadVars>>

\* The response is good and open(file_path, "wb") creates the file.
GetOpens ==
    /\ f_pc = "get"
    /\ gets' = gets + 1
    /\ disk' = [disk EXCEPT ![f_job] = "partial"]
    /\ f_opened' = TRUE
    /\ f_pc' = "stream"
    /\ UNCHANGED <<f_job, f_url, attempts, f_result, f_existed, f_prior, f_ready,
                   heads, downloads, returned_path, mainVars, notDownloadVars>>

\* Every chunk is written: return file_path.
StreamCompletes ==
    /\ f_pc = "stream"
    /\ disk' = [disk EXCEPT ![f_job] = "complete"]
    /\ downloads' = [downloads EXCEPT ![f_job] = @ + 1]
    /\ returned_path' = [returned_path EXCEPT ![f_job] = TRUE]
    /\ f_pc' = "returned"
    /\ f_result' = Some(f_job)
    /\ UNCHANGED <<f_job, f_url, attempts, f_existed, f_prior, f_ready,
                   f_opened, heads, gets, mainVars, notDownloadVars>>

\* iter_content raises a RequestException mid-stream: the partial file is
\* removed, return None.
StreamTransportFailure ==
    /\ f_pc = "stream"
    /\ disk' = RemovePartial(disk, f_job)
    /\ f_pc' = "returned"
    /\ f_result' = Null
    /\ UNCHANGED <<f_job, f_url, attempts, f_existed, f_prior, f_ready,
                   f_opened, heads, gets, downloads, returned_path, mainVars, notDownloadVars>>

\* f.write raises an OSError (disk full): no handler catches it, the call
\* raises and the partial file stays.
StreamWriteError ==
    /\ f_pc = "stream"
    /\ f_pc' = "raised"
    /\ UNCHANGED <<disk, f_job, f_url, attempts, f_result, f_existed, f_prior, f_ready,
                   f_opened, heads, gets, downloads, returned_path, mainVars, notDownloadVars>>

FetchStep ==
    \/ PollNotReady
    \/ PollReady
    \/ PollExhausted
    \/ GetFails
    \/ GetOpens
    \/ StreamCompletes
    \/ StreamTransportFailure
    \/ StreamWriteError

\* A caller outside download_contracts.main calls fetch_download.
EnvFetchCall ==
    /\ m_pc = "idle"
    /\ f_pc \in {"idle", "returned", "raised"}
    /\ \E job \in Jobs : \E url \in {Null, Some(job)} : FetchBegin(job, url)
    /\ UNCHANGED <<mainVars, notDownloadVars>>

FetchNext == EnvFetchCall \/ FetchStep

(***************************************************************************)
(* download_contracts.main(department, sub_award_type, start_date,         *)
(* end_date): one department and award type, one job per date range.       *)
(***************************************************************************)
MainIdle ==
    /\ m_pc = "idle"
    /\ n_ranges = 0
    /\ file_urls = <<>>
    /\ successful_downloads = <<>>
    /\ m_idx = 1
    /\ still_missing = <<>>
    /\ m_exit = Null
    /\ recovery_calls = [j \in Jobs |-> 0]
    /\ obtained = {}
    /\ m_log = <<>>

\* date_ranges = create_date_ranges(...): any number of ranges, none when
\* start_date >= end_date.
MainInit ==
    /\ m_pc = "request"
    /\ n_ranges \in 0..MaxJobs
    /\ file_urls = <<>>
    /\ successful_downloads = <<>>
    /\ m_idx = 1
    /\ still_missing = <<>>
    /\ m_exit = Null
    /\ recovery_calls = [j \in Jobs |-> 0]
    /\ obtained = {}
    /\ m_log = <<>>

\* Mutant: a missing url counts as a url.
UrlPresent_Always(url) == TRUE

\* if file_url:
UrlPresent(url) == url # Null

\* Mutant: the entries of file_urls are visited last first.
ItemAt_Reversed(i, n) == n + 1 - i

\* file_urls.items(): the i-th entry visited is the i-th entry inserted.
ItemAt(i, n) == i

InSuccessful(job) == \E i \in 1..Len(successful_downloads) : successful_downloads[i] = job

\* The tail of main: 0 if successful_downloads else 1.
FinalExit(successful) == IF successful # <<>> THEN 0 ELSE 1

\* Step 1: request_download for the next date range; the url is None when
\* the request fails.
MainRequest ==
    /\ m_pc = "request"
    /\ Len(file_urls) < n_ranges
    /\ \E ok \in BOOLEAN :
          file_urls' = Append(file_urls, IF ok THEN Some(Len(file_urls) + 1) ELSE Null)
    /\ m_log' = Append(m_log, <<"request", Len(file_urls) + 1>>)
    /\ UNCHANGED <<m_pc, n_ranges, successful_downloads, m_idx, still_missing, m_exit,
                   recovery_calls, obtained, fetchVars, notDownloadVars>>

MainRequestsDone ==
    /\ m_pc = "request"
    /\ Len(file_urls) = n_ranges
    /\ m_pc' = "fetch"
    /\ m_idx' = 1
    /\ UNCHANGED <<n_ranges, file_urls, successful_downloads, still_missing, m_exit,
                   recovery_calls, obtained, fetchVars, m_log, notDownloadVars>>

\* Step 2, a job without url: a warning only.
MainFetchNoUrl ==
    /\ m_pc = "fetch"
    /\ f_pc = "idle"
    /\ m_idx <= n_ranges
    /\ ~UrlPresent(file_urls[ItemAt(m_idx, n_ranges)])
    /\ m_idx' = m_idx + 1
    /\ UNCHANGED <<m_pc, n_ranges, file_urls, successful_downloads, still_missing, m_exit,
                   recovery_calls, obtained, fetchVars, m_log, notDownloadVars>>

\* Step 2, a job with a url: fetch_download is called.
MainFetchCall ==
    /\ m_pc = "fetch"
    /\ f_pc = "idle"
    /\ m_idx <= n_ranges
    /\ UrlPresent(file_urls[ItemAt(m_idx, n_ranges)])
    /\ FetchBegin(ItemAt(m_idx, n_ranges), file_urls[ItemAt(m_idx, n_ranges)])
    /\ m_log' = Append(m_log, <<"fetch", ItemAt(m_idx, n_ranges)>>)
    /\ UNCHANGED <<m_pc, n_ranges, file_urls, successful_downloads, m_idx, still_missing,
                   m_exit, recovery_calls, obtained, notDownloadVars>>

\* Step 2: fetch_download has returned.
MainFetchReturn ==
    /\ m_pc = "fetch"
    /\ f_pc = "returned"
    /\ f_pc' = "idle"
    /\ m_idx' = m_idx + 1
    /\ IF f_result # Null
       THEN /\ successful_downloads' = Append(successful_downloads, f_result[1])
            /\ obtained' = obtained \cup {f_job}
       ELSE UNCHANGED <<successful_downloads, obtained>>
    /\ UNCHANGED <<m_pc, n_ranges, file_urls, still_missing, m_exit, recovery_calls,
                   disk, f_job, f_url, attempts, f_result, f_existed, f_prior, f_ready,
                   f_opened, heads, gets, downloads, returned_path, m_log, notDownloadVars>>

\* Step 3 is entered when fewer files were fetched than there are ranges;
\* otherwise main returns.
MainFetchLoopEnd ==
    /\ m_pc = "fetch"
    /\ f_pc = "idle"
    /\ m_idx > n_ranges
    /\ IF Len(successful_downloads) < n_ranges
       THEN /\ m_pc' = "recover"
            /\ m_idx' = 1
            /\ UNCHANGED m_exit
       ELSE /\ m_pc' = "done"
            /\ m_exit' = Some(FinalExit(successful_downloads))
            /\ UNCHANGED m_idx
    /\ UNCHANGED <<n_ranges, file_urls, successful_downloads, still_missing,
                   recovery_calls, obtained, fetchVars, m_log, notDownloadVars>>

\* check_and_download_missing: the expected file is among the successful
\* downloads.
MainRecoverSkip ==
    /\ m_pc = "recover"
    /\ f_pc = "idle"
    /\ m_idx <= n_ranges
    /\ InSuccessful(m_idx)
    /\ m_idx' = m_idx + 1
    /\ UNCHANGED <<m_pc, n_ranges, file_urls, successful_downloads, still_missing, m_exit,
                   recovery_calls, obtained, fetchVars, m_log, notDownloadVars>>

\* check_and_download_missing: the expected file is not among them, so
\* fetch_download is called with whatever url file_urls holds for the job.
MainRecoverCall ==
    /\ m_pc = "recover"
    /\ f_pc = "idle"
    /\ m_idx <= n_ranges
    /\ ~InSuccessful(m_idx)
    /\ FetchBegin(m_idx, file_urls[m_idx])
    /\ recovery_calls' = [recovery_calls EXCEPT ![m_idx] = @ + 1]
    /\ m_log' = Append(m_log, <<"recover", m_idx>>)
    /\ UNCHANGED <<m_pc, n_ranges, file_urls, successful_downloads, m_idx, still_missing,
                   m_exit, obtained, notDownloadVars>>

\* check_and_download_missing: fetch_download has returned.
MainRecoverReturn ==
    /\ m_pc = "recover"
    /\ f_pc = "returned"
    /\ f_pc' = "idle"
    /\ m_idx' = m_idx + 1
    /\ IF f_result = Null
       THEN /\ still_missing' = Append(still_missing, f_job)
            /\ UNCHANGED obtained
       ELSE /\ obtained' = obtained \cup {f_job}
            /\ UNCHANGED still_missing
    /\ UNCHANGED <<m_pc, n_ranges, file_urls, successful_downloads, m_exit, recovery_calls,
                   disk, f_job, f_url, attempts, f_result, f_existed, f_prior, f_ready,
                   f_opened, heads, gets, downloads, returned_path, m_log, notDownloadVars>>

\* End of step 3: return 1 if anything is still missing, else the tail.
MainRecoverEnd ==
    /\ m_pc = "recover"
    /\ f_pc = "idle"
    /\ m_idx > n_ranges
    /\ m_pc' = "done"
    /\ m_exit' = IF still_missing # <<>> THEN Some(1)
                 ELSE Some(FinalExit(successful_downloads))
    /\ UNCHANGED <<n_ranges, file_urls, successful_downloads, m_idx, still_missing,
                   recovery_calls, obtained, fetchVars, m_log, notDownloadVars>>

\* fetch_download raised: nothing in main catches it.
MainCrash ==
    /\ m_pc \in {"fetch", "recover"}
    /\ f_pc = "raised"
    /\ m_pc' = "crashed"
    /\ UNCHANGED <<n_ranges, file_urls, successful_downloads, m_idx, still_missing, m_exit,
                   recovery_calls, obtained, fetchVars, m_log, notDownloadVars>>

MainStep ==
    \/ MainRequest
    \/ MainRequestsDone
    \/ MainFetchNoUrl
    \/ MainFetchCall
    \/ MainFetchReturn
    \/ MainFetchLoopEnd
    \/ MainRecoverSkip
    \/ MainRecoverCall
    \/ MainRecoverReturn
    \/ MainRecoverEnd
    \/ MainCrash

DownloadNext == MainStep \/ FetchStep

(***************************************************************************)
(* filter_by_amount_and_keywords(file_path, min_amount, pattern,           *)
(* output_dir)                                                             *)
(*                                                                         *)
(* The master file read has a set of columns and rows; a row carries its   *)
(* award id, the text of its amount cell and its description.  A frame     *)
(* derived from it is the sequence of the row labels it keeps.             *)
(***************************************************************************)
MaxFilterRows == 2

AmountColumn == "current_total_value_of_award"
IdColumn == "award_id_piid"

\* The master file as it is, or lacking one of the columns looked for.
FilterColumnSets ==
    { {AmountColumn, DescColumn, IdColumn},
      {DescColumn, IdColumn},
      {AmountColumn, IdColumn},
      {AmountColumn, DescColumn} }

\* The text of an amount cell: empty, no number, or a number.
AmountTexts == {"", "N/A", "1", "2", "3"}

FilterIds == {Null, Some("A"), Some("B")}

FilterDescriptions == {Null, Some(<<"D", "E", "I">>)}

FilterRows == [id : FilterIds, amount : AmountTexts, desc : FilterDescriptions]

\* --min-amount
MinAmounts == {2, 3}

\* pd.to_numeric(cell, errors="coerce"): NaN for what is no number.
ToNumeric(t) ==
    CASE t = "1" -> Some(1)
      [] t = "2" -> Some(2)
      [] t = "3" -> Some(3)
      [] OTHER -> Null

\* Mutant: a cell that is no number passes the amount filter.
AtLeast_NaNPasses(a, min) == a = Null \/ a[1] >= min

\* df[amount_col] >= min_amount; a comparison with NaN is False.
AtLeast(a, min) == a # Null /\ a[1] >= min

\* amount_filtered
AmountFiltered(rows, min) ==
    SelectSeq(Indices(rows), LAMBDA i : AtLeast(ToNumeric(rows[i].amount), min))

\* keyword_filtered
KeywordFiltered(rows, labels) ==
    SelectSeq(labels, LAMBDA i : DescMatches(rows[i].desc))

\* keyword_filtered[id_col].nunique(): NaN is not counted.
NUnique(rows, labels) ==
    Cardinality({rows[labels[n]].id : n \in 1..Len(labels)} \ {Null})

\* The orderings of a frame.
Orderings(labels) ==
    {[n \in 1..Len(labels) |-> labels[f[n]]] :
        f \in {g \in [1..Len(labels) -> 1..Len(labels)] :
                  \A a, b \in 1..Len(labels) : a # b => g[a] # g[b]}}

\* sort_values(by=amount_col, ascending=False) with the default kind
\* "quicksort", which is not a stable sort: any ordering by non-increasing
\* amount may come out, rows of equal amount in any order.
SortValues(rows, labels) ==
    {q \in Orderings(labels) :
        \A n \in 1..(Len(q) - 1) :
            ToNumeric(rows[q[n]].amount)[1] >= ToNumeric(rows[q[n + 1]].amount)[1]}

\* Mutant: the last occurrence of each id is kept.
DropDuplicates_KeepLast(rows, labels) ==
    LET pos == SelectSeq(Indices(labels),
                   LAMBDA n : \A m \in (n + 1)..Len(labels) :
                                  rows[labels[m]].id # rows[labels[n]].id)
    IN  [k \in 1..Len(pos) |-> labels[pos[k]]]

\* drop_duplicates(subset=[id_col], keep="first"); NaN ids equal each other.
DropDuplicates(rows, labels) ==
    LET pos == SelectSeq(Indices(labels),
                   LAMBDA n : \A m \in 1..(n - 1) :
                                  rows[labels[m]].id # rows[labels[n]].id)
    IN  [k \in 1..Len(pos) |-> labels[pos[k]]]

\* The frames the deduplication step can leave: with an id column and
\* duplicate_count > 0 the frame is sorted and loses its duplicates.
Deduplicated(table, labels) ==
    IF IdColumn \in table.columns /\ Len(labels) - NUnique(table.rows, labels) > 0
    THEN {DropDuplicates(table.rows, q) : q \in SortValues(table.rows, labels)}
    ELSE {labels}

FiltInit ==
    /\ filt_table \in [columns : FilterColumnSets, rows : {<<>>}]
    /\ min_amount \in MinAmounts
    /\ filt_pc = "build"
    /\ filt_output = Null
    /\ filt_result = Null

FiltIdle ==
    /\ filt_table = [columns |-> {}, rows |-> <<>>]
    /\ min_amount = 2
    /\ filt_pc = "idle"
    /\ filt_output = Null
    /\ filt_result = Null

\* The master file to be read gets one more row.
FiltAddRow ==
    /\ filt_pc = "build"
    /\ Len(filt_table.rows) < MaxFilterRows
    /\ \E r \in FilterRows : filt_table' = [filt_table EXCEPT !.rows = Append(@, r)]
    /\ UNCHANGED <<min_amount, filt_pc, filt_output, filt_result, notFiltVars>>

\* An empty file: returns None.
FiltEmptyFile ==
    /\ filt_pc = "build"
    /\ filt_table.rows = <<>>
    /\ filt_pc' = "done"
    /\ UNCHANGED <<filt_table, min_amount, filt_output, filt_result, notFiltVars>>

\* No amount column: returns None.
FiltNoAmountColumn ==
    /\ filt_pc = "build"
    /\ filt_table.rows # <<>>
    /\ AmountColumn \notin filt_table.columns
    /\ filt_pc' = "done"
    /\ UNCHANGED <<filt_table, min_amount, filt_output, filt_result, notFiltVars>>

\* No row at or above min_amount: returns None.
FiltNoneAboveMinimum ==
    /\ filt_pc = "build"
    /\ filt_table.rows # <<>>
    /\ AmountColumn \in filt_table.columns
    /\ AmountFiltered(filt_table.rows, min_amount) = <<>>
    /\ filt_pc' = "done"
    /\ UNCHANGED <<filt_table, min_amount, filt_output, filt_result, notFiltVars>>

\* No description column: returns None.
FiltNoDescColumn ==
    /\ filt_pc = "build"
    /\ AmountColumn \in filt_table.columns
    /\ AmountFiltered(filt_table.rows, min_amount) # <<>>
    /\ DescColumn \notin filt_table.columns
    /\ filt_pc' = "done"
    /\ UNCHANGED <<filt_table, min_amount, filt_output, filt_result, notFiltVars>>

\* No row of the amount-filtered frame matches a keyword: returns None.
FiltNoKeyword ==
    /\ filt_pc = "build"
    /\ AmountColumn \in filt_table.columns
    /\ DescColumn \in filt_table.columns
    /\ AmountFiltered(filt_table.rows, min_amount) # <<>>
    /\ KeywordFiltered(filt_table.rows, AmountFiltered(filt_table.rows, min_amount)) = <<>>
    /\ filt_pc' = "done"
    /\ UNCHANGED <<filt_table, min_amount, filt_output, filt_result, notFiltVars>>

\* Rows remain: duplicates of an id are dropped, the frame is sorted by
\* amount and written to filtered_<filename>; returns the path.
FiltWrite ==
    /\ filt_pc = "build"
    /\ AmountColumn \in filt_table.columns
    /\ DescColumn \in filt_table.columns
    /\ LET amount_filtered == AmountFiltered(filt_table.rows, min_amount)
           keyword_filtered == KeywordFiltered(filt_table.rows, amount_filtered)
       IN  /\ keyword_filtered # <<>>
           /\ \E kept \in Deduplicated(filt_table, keyword_filtered) :
                 \E sorted \in SortValues(filt_table.rows, kept) :
                     filt_output' = Some(sorted)
    /\ filt_result' = Some("filtered.csv")
    /\ filt_pc' = "done"
    /\ UNCHANGED <<filt_table, min_amount, notFiltVars>>

FiltNext ==
    \/ FiltAddRow
    \/ FiltEmptyFile
    \/ FiltNoAmountColumn
    \/ FiltNoneAboveMinimum
    \/ FiltNoDescColumn
    \/ FiltNoKeyword
    \/ FiltWrite

(***************************************************************************)
(* process_all_files(input_dir, output_dir, min_amount, award_type)        *)
(*                                                                         *)
(* A file under input_dir is known by the department and award type in its *)
(* name and by whether the name holds "flagged_master".  What              *)
(* filter_by_amount_and_keywords returns for a file (a path or None) is    *)
(* chosen freely: both outcomes occur.  summaries holds every write of a   *)
(* summary file, in order.                                                 *)
(***************************************************************************)
InputDirFiles ==
    { [dept |-> "DOE", type |-> "procurement", master |-> TRUE],
      [dept |-> "DOE", type |-> "grant", master |-> TRUE],
      [dept |-> "DOL", type |-> "grant", master |-> TRUE],
      [dept |-> "DOE", type |-> "grant", master |-> FALSE] }

\* --award-type: None, or one of the two types.
AwardTypeFilters == {Null, Some("procurement"), Some("grant")}

\* file.endswith(".csv") and "flagged_master" in file, and the award type
\* in the name when one is asked for.
IsSelected(file, award_type) ==
    /\ file.master
    /\ award_type # Null => file.type = award_type[1]

\* The sequences that list the members of S once each, in any order
\* (os.walk yields directory entries in arbitrary order).
Listings(S) ==
    {q \in [1..Cardinality(S) -> S] : \A a, b \in 1..Cardinality(S) : a # b => q[a] # q[b]}

\* summary_data
SummaryData(min, award_type, found, filtered) ==
    [minimum_amount |-> min,
     award_type |-> IF award_type = Null THEN "all" ELSE award_type[1],
     files_processed |-> Len(found),
     files_with_matches |-> Len(filtered),
     filtered_files |-> filtered]

PaInit ==
    /\ pa_dir \in SUBSET InputDirFiles
    /\ pa_award_type \in AwardTypeFilters
    /\ pa_pc = "start"
    /\ csv_files = <<>>
    /\ pa_idx = 1
    /\ filtered_files = <<>>
    /\ summaries = <<>>

PaIdle ==
    /\ pa_dir = {}
    /\ pa_award_type = Null
    /\ pa_pc = "idle"
    /\ csv_files = <<>>
    /\ pa_idx = 1
    /\ filtered_files = <<>>
    /\ summaries = <<>>

\* os.walk finds no master file: returns [].
PaNoFiles ==
    /\ pa_pc = "start"
    /\ {f \in pa_dir : IsSelected(f, pa_award_type)} = {}
    /\ pa_pc' = "done"
    /\ UNCHANGED <<pa_dir, pa_award_type, csv_files, pa_idx, filtered_files, summaries,
                   notPaVars>>

\* os.walk collects the master files.
PaWalk ==
    /\ pa_pc = "start"
    /\ {f \in pa_dir : IsSelected(f, pa_award_type)} # {}
    /\ csv_files' \in Listings({f \in pa_dir : IsSelected(f, pa_award_type)})
    /\ pa_pc' = "loop"
    /\ UNCHANGED <<pa_dir, pa_award_type, pa_idx, filtered_files, summaries, notPaVars>>

\* One master file is filtered; a returned path is appended.
PaFilterFile ==
    /\ pa_pc = "loop"
    /\ pa_idx <= Len(csv_files)
    /\ \E matched \in BOOLEAN :
          filtered_files' =
              IF matched THEN Append(filtered_files, csv_files[pa_idx]) ELSE filtered_files
    /\ pa_idx' = pa_idx + 1
    /\ UNCHANGED <<pa_dir, pa_award_type, pa_pc, csv_files, summaries, notPaVars>>

\* After the loop: the summary is written if filtered_files is not empty.
PaSummary ==
    /\ pa_pc = "loop"
    /\ pa_idx > Len(csv_files)
    /\ summaries' =
          IF filtered_files # <<>>
          THEN Append(summaries,
                      SummaryData(min_amount, pa_award_type, csv_files, filtered_files))
          ELSE summaries
    /\ pa_pc' = "done"
    /\ UNCHANGED <<pa_dir, pa_award_type, csv_files, pa_idx, filtered_files, notPaVars>>

PaNext == PaNoFiles \/ PaWalk \/ PaFilterFile \/ PaSummary

(***************************************************************************)
(* orchestrator.main and process_department                                *)
(*                                                                         *)
(* download_contracts and transform_data are the two stages' main          *)
(* functions; each returns an exit code.  What a stage does on the network *)
(* and on disk is the environment's choice here: a call is one step with   *)
(* one of the outcomes the stage can produce.  entered holds the positions  *)
(* of the department list for which process_department was called, io_log *)
(* the kinds of file-system and network operations performed so far.       *)
(***************************************************************************)
MaxDepartments == 2

\* Two of the keys of DEPARTMENTS, and a name that is none of its keys.
KnownDepartments == {"Department of Energy", "Department of Labor"}
DepartmentNames == KnownDepartments \cup {"Department of Magic"}

\* list(DEPARTMENTS.keys())
AllDepartments == <<"Department of Energy", "Department of Labor">>

AWARD_TYPES == <<"procurement", "grant">>

SeqsUpTo(S, n) == UNION {[1..k -> S] : k \in 0..n}

\* download_contracts.main returns 0 or 1.
DownloadCodes == {0, 1}

\* transform_data.main returns 0 with the master path process_zip_files
\* gave it, whether or not combine_csv_files wrote the master, and 1 when no
\* archive or no flagged file was found.
TransformOutcomes ==
    {[code |-> 0, written |-> TRUE],
     [code |-> 0, written |-> FALSE],
     [code |-> 1, written |-> FALSE]}

\* Truth value of an exit code in "if not zip_files" / "if master_file".
Truthy(code) == code # 0

\* The value main returns after the summary is written.
OrchReturnCode == 0

OrchIdle ==
    /\ o_pc = "idle"
    /\ o_departments = <<>>
    /\ o_award_types = <<>>
    /\ skip_download = FALSE
    /\ process_existing = FALSE
    /\ o_d = 1
    /\ o_t = 1
    /\ o_combos = {}
    /\ dept_results = {}
    /\ results = {}
    /\ o_exit = Null
    /\ download_codes = {}
    /\ masters_written = {}
    /\ entered = {}
    /\ io_log = {}
    /\ stage_log = <<>>

\* The arguments of main; an empty list stands for None as well. The command
\* line refuses skip_download together with process_existing.
OrchInit ==
    /\ o_pc = "start"
    /\ o_departments \in SeqsUpTo(DepartmentNames, MaxDepartments)
    /\ o_award_types \in {<<>>, <<"procurement">>, <<"grant">>, AWARD_TYPES}
    /\ skip_download \in BOOLEAN
    /\ process_existing \in BOOLEAN
    /\ ~(skip_download /\ process_existing)
    /\ o_d = 1
    /\ o_t = 1
    /\ o_combos = {}
    /\ dept_results = {}
    /\ results = {}
    /\ o_exit = Null
    /\ download_codes = {}
    /\ masters_written = {}
    /\ entered = {}
    /\ io_log = {}
    /\ stage_log = <<>>

\* main, process_existing: process_all_existing_data finds the department
\* and award-type combinations of the archives in raw_data.
OrchStartExisting ==
    /\ o_pc = "start"
    /\ process_existing
    /\ o_pc' = "existing"
    /\ \E found \in SUBSET (KnownDepartments \X {"procurement", "grant"}) : o_combos' = found
    /\ io_log' = io_log \cup {"makedirs", "glob"}
    /\ UNCHANGED <<o_departments, o_award_types, skip_download, process_existing, o_d, o_t,
                   dept_results, results, o_exit, download_codes, masters_written,
                   entered, stage_log,
                   notOrchVars>>

\* process_all_existing_data: transform_data for one combination; the code
\* is recorded when it is truthy.
OrchExistingTransform ==
    /\ o_pc = "existing"
    /\ \E combo \in o_combos : \E out \in TransformOutcomes :
          /\ o_combos' = o_combos \ {combo}
          /\ masters_written' =
                IF out.written THEN masters_written \cup {combo} ELSE masters_written
          /\ results' =
                IF Truthy(out.code) THEN results \cup {<<combo[1], combo[2], out.code>>}
                ELSE results
    /\ io_log' = io_log \cup {"makedirs", "transform"}
    /\ UNCHANGED <<o_pc, o_departments, o_award_types, skip_download, process_existing,
                   o_d, o_t, dept_results, o_exit, download_codes, entered, stage_log,
                   notOrchVars>>

\* main without process_existing: the defaults for departments and award
\* types, then the loop over the departments.
OrchStart ==
    /\ o_pc = "start"
    /\ ~process_existing
    /\ o_departments' = IF o_departments = <<>> THEN AllDepartments ELSE o_departments
    /\ o_award_types' = IF o_award_types = <<>> THEN AWARD_TYPES ELSE o_award_types
    /\ o_pc' = "dept"
    /\ o_d' = 1
    /\ io_log' = io_log \cup {"makedirs"}
    /\ UNCHANGED <<skip_download, process_existing, o_t, o_combos, dept_results, results,
                   o_exit, download_codes, masters_written, entered, stage_log,
                   notOrchVars>>

\* A name that is no key of DEPARTMENTS: a warning, continue.
OrchUnknownDepartment ==
    /\ o_pc = "dept"
    /\ o_d <= Len(o_departments)
    /\ o_departments[o_d] \notin KnownDepartments
    /\ o_d' = o_d + 1
    /\ UNCHANGED <<o_pc, o_departments, o_award_types, skip_download, process_existing, o_t,
                   o_combos, dept_results, results, o_exit, download_codes, masters_written,
                   entered, io_log, stage_log,
                   notOrchVars>>

\* process_department is entered: results = {}.
OrchEnterDepartment ==
    /\ o_pc = "dept"
    /\ o_d <= Len(o_departments)
    /\ o_departments[o_d] \in KnownDepartments
    /\ o_pc' = "type"
    /\ o_t' = 1
    /\ dept_results' = {}
    /\ entered' = entered \cup {o_d}
    /\ io_log' = io_log \cup {"makedirs"}
    /\ UNCHANGED <<o_departments, o_award_types, skip_download, process_existing, o_d,
                   o_combos, results, o_exit, download_codes, masters_written, stage_log,
                   notOrchVars>>

\* Step 1: zip_files = download_contracts(...); if not zip_files: continue.
OrchDownload ==
    /\ o_pc = "type"
    /\ o_t <= Len(o_award_types)
    /\ ~skip_download
    /\ \E code \in DownloadCodes :
          /\ stage_log' = Append(stage_log, <<"download", o_d, o_t, code>>)
          /\ download_codes' =
                download_codes \cup {<<o_departments[o_d], o_award_types[o_t], code>>}
          /\ IF Truthy(code)
             THEN o_pc' = "transform" /\ UNCHANGED o_t
             ELSE o_t' = o_t + 1 /\ UNCHANGED o_pc
    /\ io_log' = io_log \cup {"download"}
    /\ UNCHANGED <<o_departments, o_award_types, skip_download, process_existing, o_d,
                   o_combos, dept_results, results, o_exit, masters_written,
                   entered, notOrchVars>>

\* Step 1 with skip_download: the archives already in raw_data are globbed;
\* without any, continue.
OrchGlob ==
    /\ o_pc = "type"
    /\ o_t <= Len(o_award_types)
    /\ skip_download
    /\ \E found \in BOOLEAN :
          IF found
          THEN o_pc' = "transform" /\ UNCHANGED o_t
          ELSE o_t' = o_t + 1 /\ UNCHANGED o_pc
    /\ io_log' = io_log \cup {"glob"}
    /\ UNCHANGED <<o_departments, o_award_types, skip_download, process_existing, o_d,
                   o_combos, dept_results, results, o_exit, download_codes, masters_written,
                   entered, stage_log,
                   notOrchVars>>

\* Step 2: master_file = transform_data(...); if master_file:
\* results[award_type] = master_file.
OrchTransform ==
    /\ o_pc = "transform"
    /\ \E out \in TransformOutcomes :
          /\ stage_log' = Append(stage_log, <<"transform", o_d, o_t, out.code>>)
          /\ masters_written' =
                IF out.written
                THEN masters_written \cup {<<o_departments[o_d], o_award_types[o_t]>>}
                ELSE masters_written
          /\ dept_results' =
                IF Truthy(out.code)
                THEN {e \in dept_results : e[1] # o_award_types[o_t]}
                         \cup {<<o_award_types[o_t], out.code>>}
                ELSE dept_results
    /\ o_pc' = "type"
    /\ o_t' = o_t + 1
    /\ io_log' = io_log \cup {"transform"}
    /\ UNCHANGED <<o_departments, o_award_types, skip_download, process_existing, o_d,
                   o_combos, results, o_exit, download_codes, entered, notOrchVars>>

\* A stage raises (an error no handler of the stage catches, such as
\* listing a raw_data directory that does not exist): nothing in the
\* orchestrator catches it, the process ends with exit code 1.
OrchStageRaises ==
    /\ \/ o_pc = "transform"
       \/ o_pc = "type" /\ o_t <= Len(o_award_types) /\ ~skip_download
       \/ o_pc = "existing" /\ o_combos # {}
    /\ o_pc' = "crashed"
    /\ o_exit' = Some(1)
    /\ io_log' = io_log \cup {IF o_pc = "type" THEN "download" ELSE "transform"}
    /\ UNCHANGED <<o_departments, o_award_types, skip_download, process_existing, o_d, o_t,
                   o_combos, dept_results, results, download_codes, masters_written,
                   entered, stage_log,
                   notOrchVars>>

\* process_department returns; if dept_results: results[acronym] = it.
OrchLeaveDepartment ==
    /\ o_pc = "type"
    /\ o_t > Len(o_award_types)
    /\ results' =
          IF dept_results # {}
          THEN {e \in results : e[1] # o_departments[o_d]}
                   \cup {<<o_departments[o_d], e[1], e[2]>> : e \in dept_results}
          ELSE results
    /\ o_pc' = "dept"
    /\ o_d' = o_d + 1
    /\ UNCHANGED <<o_departments, o_award_types, skip_download, process_existing, o_t,
                   o_combos, dept_results, o_exit, download_codes, masters_written,
                   entered, io_log, stage_log,
                   notOrchVars>>

\* The summary is written and main returns.
OrchFinish ==
    /\ \/ o_pc = "dept" /\ o_d > Len(o_departments)
       \/ o_pc = "existing" /\ o_combos = {}
    /\ o_pc' = "done"
    /\ o_exit' = Some(OrchReturnCode)
    /\ io_log' = io_log \cup {"summary"}
    /\ UNCHANGED <<o_departments, o_award_types, skip_download, process_existing, o_d, o_t,
                   o_combos, dept_results, results, download_codes, masters_written,
                   entered, stage_log,
                   notOrchVars>>

OrchNext ==
    \/ OrchStartExisting
    \/ OrchExistingTransform
    \/ OrchStart
    \/ OrchUnknownDepartment
    \/ OrchEnterDepartment
    \/ OrchDownload
    \/ OrchGlob
    \/ OrchTransform
    \/ OrchStageRaises
    \/ OrchLeaveDepartment
    \/ OrchFinish

(***************************************************************************)
(* Where the stages keep the archives of one (department, award type)      *)
(* pair in an orchestrated run: fetch_download builds the path it writes   *)
(* to, transform_data.main lists zip_dir and picks the files by name.      *)
(* A file name <dept>_<type>_<start>_to_<end>.zip is the tuple of its      *)
(* department part, its award type and its date range.                     *)
(***************************************************************************)
\* fetch_download: download_dir
download_dir == "contract_data"

\* process_department: transform_data(zip_dir="raw_data", ...)
zip_dir == "raw_data"

\* department.replace(" ", "_").lower()
DeptPattern(dept) ==
    CASE dept = "Department of Energy" -> "department_of_energy"
      [] dept = "Department of Labor" -> "department_of_labor"

\* f"{dept_name}_{sub_award_type}_{start_date}_to_{end_date}.zip"
ArchiveName(dept, type, range) == <<DeptPattern(dept), type, range>>

\* os.path.join(download_dir, filename)
FetchPath(dept, type, range) ==
    [dir |-> download_dir, name |-> ArchiveName(dept, type, range)]

\* file.startswith(f"{dept_name_pattern}_{sub_award_type}_") and
\* file.endswith(".zip")
NameMatches(name, dept, type) == name[1] = DeptPattern(dept) /\ name[2] = type

\* zip_files of transform_data.main
ZipFiles(fs, dept, type) ==
    {p \in fs : p.dir = zip_dir /\ NameMatches(p.name, dept, type)}

LayPairs == KnownDepartments \X {"procurement", "grant"}

\* Archives that may lie in raw_data or contract_data before the run.
EarlierArchives ==
    {[dir |-> d, name |-> ArchiveName(pr[1], pr[2], r)] :
        d \in {zip_dir, download_dir}, pr \in {"Department of Energy"} \X {"procurement", "grant"},
        r \in Jobs}

LayInit ==
    /\ lay_pair \in LayPairs
    /\ lay_fs \in SUBSET EarlierArchives
    /\ lay_dirs \in SUBSET {zip_dir, download_dir}
    /\ \A p \in lay_fs : p.dir \in lay_dirs
    /\ lay_pc = "start"
    /\ lay_code = Null
    /\ lay_stored = {}
    /\ lay_seen = {}

LayIdle ==
    /\ lay_pair = <<"Department of Energy", "procurement">>
    /\ lay_fs = {}
    /\ lay_dirs = {}
    /\ lay_pc = "idle"
    /\ lay_code = Null
    /\ lay_stored = {}
    /\ lay_seen = {}

\* Step 1 of process_department: the download stage stores the archives it
\* fetches (those not on disk yet) and returns its code; 0 only if every
\* date range has its archive.
LayDownload ==
    /\ lay_pc = "start"
    /\ \E ranges \in SUBSET Jobs : \E code \in DownloadCodes :
          LET new == {FetchPath(lay_pair[1], lay_pair[2], r) : r \in ranges} \ lay_fs
          IN  /\ code = 0 =>
                    \A r \in Jobs : FetchPath(lay_pair[1], lay_pair[2], r) \in lay_fs \cup new
              /\ lay_stored' = new
              /\ lay_fs' = lay_fs \cup new
              /\ lay_code' = Some(code)
    /\ lay_dirs' = lay_dirs \cup {download_dir}
    /\ lay_pc' = "downloaded"
    /\ UNCHANGED <<lay_pair, lay_seen, notLayVars>>

\* if not zip_files: continue -- the pair is left without a transform.
LayContinue ==
    /\ lay_pc = "downloaded"
    /\ ~Truthy(lay_code[1])
    /\ lay_pc' = "done"
    /\ UNCHANGED <<lay_pair, lay_fs, lay_dirs, lay_code, lay_stored, lay_seen, notLayVars>>

\* Step 2: transform_data lists zip_dir and processes the pair's archives.
LayTransform ==
    /\ lay_pc = "downloaded"
    /\ Truthy(lay_code[1])
    /\ zip_dir \in lay_dirs
    /\ lay_seen' = ZipFiles(lay_fs, lay_pair[1], lay_pair[2])
    /\ lay_pc' = "done"
    /\ UNCHANGED <<lay_pair, lay_fs, lay_dirs, lay_code, lay_stored, notLayVars>>

\* Step 2 without a zip_dir: os.listdir raises.
LayTransformRaises ==
    /\ lay_pc = "downloaded"
    /\ Truthy(lay_code[1])
    /\ zip_dir \notin lay_dirs
    /\ lay_pc' = "raised"
    /\ UNCHANGED <<lay_pair, lay_fs, lay_dirs, lay_code, lay_stored, lay_seen, notLayVars>>

LayNext == LayDownload \/ LayContinue \/ LayTransform \/ LayTransformRaises

(***************************************************************************)
(* create_date_ranges(start_date_str, end_date_str, interval_months)       *)
(***************************************************************************)
\* while current_start < end_date
LoopGuard(cs, e) == DateLT(cs, e)

CdrInit ==
    /\ start_date \in InputDates({BaseYear})
    /\ end_date \in InputDates(BaseYear..(BaseYear + YearSpan))
    /\ interval_months \in 1..MaxInterval
    /\ current_start = start_date
    /\ date_ranges = <<>>
    /\ cdr_pc = "loop"

CdrIdle ==
    /\ start_date = <<BaseYear, 1, 1>>
    /\ end_date = <<BaseYear, 1, 1>>
    /\ interval_months = 1
    /\ current_start = <<BaseYear, 1, 1>>
    /\ date_ranges = <<>>
    /\ cdr_pc = "idle"

\* One iteration of the while loop.
CdrStep ==
    /\ cdr_pc = "loop"
    /\ LoopGuard(current_start, end_date)
    /\ LET stepEnd == MinusOneDay(AddMonths(current_start, interval_months))
           current_end == IF DateLT(end_date, stepEnd) THEN end_date ELSE stepEnd
       IN  /\ date_ranges' = Append(date_ranges, <<current_start, current_end>>)
           /\ current_start' = PlusOneDay(current_end)
    /\ UNCHANGED <<start_date, end_date, interval_months, cdr_pc, notCdrVars>>

\* The loop condition fails: return date_ranges.
CdrReturn ==
    /\ cdr_pc = "loop"
    /\ ~LoopGuard(current_start, end_date)
    /\ cdr_pc' = "done"
    /\ UNCHANGED <<start_date, end_date, interval_months, current_start, date_ranges, notCdrVars>>

CdrNext == CdrStep \/ CdrReturn

(***************************************************************************)
(* transform_data.main and process_zip_files: the archives of a department *)
(* and award type are extracted one by one into output_dir/temp_extract,   *)
(* every table found there is flagged, and the flagged files are combined. *)
(***************************************************************************)
MaxArchives == 2

\* Base names of the tables an archive may hold, and an entry that is no
\* table.
TableNames == {"a.csv", "b.csv"}
OtherEntry == "readme.txt"

\* An archive: its tables, those of them in which process_csv_file finds
\* flagged rows, whether it holds an entry that is no table, and whether
\* zipfile extracts it without error.
Archives ==
    {z \in [tables : SUBSET TableNames, flagged : SUBSET TableNames,
            other : BOOLEAN, intact : BOOLEAN] : z.flagged \subseteq z.tables}

\* An entry of the extraction directory is <<name, k>>: the file of that
\* name as archive k holds it.
EntriesOf(k) ==
    {<<n, k>> : n \in pz_zips[k].tables \cup (IF pz_zips[k].other THEN {OtherEntry} ELSE {})}

\* zip_ref.extractall(extract_dir): the entries are written into the
\* directory, over entries of the same name.
ExtractAll(dir, entries) ==
    {e \in dir : \A x \in entries : x[1] # e[1]} \cup entries

\* find_all_csv_files: the entries whose name ends with ".csv".
find_all_csv_files(dir) == {e \in dir : e[1] \in TableNames}

\* The path process_csv_file writes: dept_acronym, sub_award_type and the
\* base name of the table; the archive is no part of it.
FlaggedPath(entry) == <<entry[1], "_flagged.csv">>

\* The file at path holds the flagged rows of the table it was written from.
WriteFlagged(dir, entry) ==
    {f \in dir : f[1] # FlaggedPath(entry)} \cup {<<FlaggedPath(entry), entry>>}

PathExists(dir, path) == \E f \in dir : f[1] = path

PzIdle ==
    /\ pz_zips = <<>>
    /\ pz_pc = "idle"
    /\ pz_idx = 1
    /\ temp_dir = Null
    /\ pz_pending = {}
    /\ flagged_files = <<>>
    /\ out_dir = {}
    /\ pz_flagged = {}
    /\ pz_success = Null
    /\ pz_master = Null
    /\ pz_del = 1
    /\ pz_result = Null
    /\ pz_exit = Null

\* main is called for a department and award type; zip_dir holds the
\* archives whose names match (main lists them just before the call, so
\* each of them exists when process_zip_files reaches it).
PzInit ==
    /\ pz_zips \in SeqsUpTo(Archives, MaxArchives)
    /\ pz_pc = "main"
    /\ pz_idx = 1
    /\ temp_dir = Null
    /\ pz_pending = {}
    /\ flagged_files = <<>>
    /\ out_dir = {}
    /\ pz_flagged = {}
    /\ pz_success = Null
    /\ pz_master = Null
    /\ pz_del = 1
    /\ pz_result = Null
    /\ pz_exit = Null

\* main: no archive matches, return 1.
PzMainNoZips ==
    /\ pz_pc = "main"
    /\ pz_zips = <<>>
    /\ pz_pc' = "done"
    /\ pz_exit' = Some(1)
    /\ UNCHANGED <<pz_zips, pz_idx, temp_dir, pz_pending, flagged_files, out_dir, pz_flagged,
                   pz_success, pz_master, pz_del, pz_result, notPzVars>>

\* main calls process_zip_files, which makes temp_extract.
PzEnter ==
    /\ pz_pc = "main"
    /\ pz_zips # <<>>
    /\ pz_pc' = "loop"
    /\ pz_idx' = 1
    /\ temp_dir' = Some({})
    /\ UNCHANGED <<pz_zips, pz_pending, flagged_files, out_dir, pz_flagged, pz_success,
                   pz_master, pz_del, pz_result, pz_exit, notPzVars>>

\* extract_zip_file returns False: what was extracted before the error
\* stays in temp_extract, and the loop continues with the next archive.
PzExtractFails ==
    /\ pz_pc = "loop"
    /\ pz_idx <= Len(pz_zips)
    /\ ~pz_zips[pz_idx].intact
    /\ \E part \in SUBSET EntriesOf(pz_idx) :
          temp_dir' = Some(ExtractAll(temp_dir[1], part))
    /\ pz_idx' = pz_idx + 1
    /\ UNCHANGED <<pz_zips, pz_pc, pz_pending, flagged_files, out_dir, pz_flagged, pz_success,
                   pz_master, pz_del, pz_result, pz_exit, notPzVars>>

\* The archive is extracted and temp_extract holds no table: continue.
PzExtractNoCsv ==
    /\ pz_pc = "loop"
    /\ pz_idx <= Len(pz_zips)
    /\ pz_zips[pz_idx].intact
    /\ find_all_csv_files(ExtractAll(temp_dir[1], EntriesOf(pz_idx))) = {}
    /\ temp_dir' = Some(ExtractAll(temp_dir[1], EntriesOf(pz_idx)))
    /\ pz_idx' = pz_idx + 1
    /\ UNCHANGED <<pz_zips, pz_pc, pz_pending, flagged_files, out_dir, pz_flagged, pz_success,
                   pz_master, pz_del, pz_result, pz_exit, notPzVars>>

\* The archive is extracted and the tables in temp_extract are found.
PzExtract ==
    /\ pz_pc = "loop"
    /\ pz_idx <= Len(pz_zips)
    /\ pz_zips[pz_idx].intact
    /\ find_all_csv_files(ExtractAll(temp_dir[1], EntriesOf(pz_idx))) # {}
    /\ temp_dir' = Some(ExtractAll(temp_dir[1], EntriesOf(pz_idx)))
    /\ pz_pending' = find_all_csv_files(ExtractAll(temp_dir[1], EntriesOf(pz_idx)))
    /\ pz_pc' = "tables"
    /\ UNCHANGED <<pz_zips, pz_idx, flagged_files, out_dir, pz_flagged, pz_success,
                   pz_master, pz_del, pz_result, pz_exit, notPzVars>>

\* process_csv_file for one of the tables found; a path is returned when
\* the table has flagged rows, and it is appended to flagged_files.
PzProcessCsv ==
    /\ pz_pc = "tables"
    /\ \E e \in pz_pending :
          /\ pz_pending' = pz_pending \ {e}
          /\ IF e[1] \in pz_zips[e[2]].flagged
             THEN /\ out_dir' = WriteFlagged(out_dir, e)
                  /\ flagged_files' = Append(flagged_files, FlaggedPath(e))
                  /\ pz_flagged' = pz_flagged \cup {<<pz_idx, e>>}
             ELSE UNCHANGED <<out_dir, flagged_files, pz_flagged>>
    /\ UNCHANGED <<pz_zips, pz_pc, pz_idx, temp_dir, pz_success, pz_master, pz_del,
                   pz_result, pz_exit, notPzVars>>

\* shutil.rmtree(temp_dir); os.makedirs(temp_dir) after the tables of the
\* archive.
PzCleanArchive ==
    /\ pz_pc = "tables"
    /\ pz_pending = {}
    /\ temp_dir' = Some({})
    /\ pz_idx' = pz_idx + 1
    /\ pz_pc' = "loop"
    /\ UNCHANGED <<pz_zips, pz_pending, flagged_files, out_dir, pz_flagged, pz_success,
                   pz_master, pz_del, pz_result, pz_exit, notPzVars>>

\* No flagged file: process_zip_files returns None (finally removes
\* temp_extract) and main returns 1.
PzNoFlagged ==
    /\ pz_pc = "loop"
    /\ pz_idx > Len(pz_zips)
    /\ flagged_files = <<>>
    /\ temp_dir' = Null
    /\ pz_result' = Some("None")
    /\ pz_exit' = Some(1)
    /\ pz_pc' = "done"
    /\ UNCHANGED <<pz_zips, pz_idx, pz_pending, flagged_files, out_dir, pz_flagged,
                   pz_success, pz_master, pz_del, notPzVars>>

\* success = combine_csv_files(flagged_files, master_file, "flagged"): the
\* master is written from the files found at the paths, or the call returns
\* False (CombineRaises) and process_zip_files returns master_file at once;
\* main then returns 0.
PzCombine ==
    /\ pz_pc = "loop"
    /\ pz_idx > Len(pz_zips)
    /\ flagged_files # <<>>
    /\ \E ok \in BOOLEAN :
          /\ pz_success' = Some(ok)
          /\ IF ok
             THEN /\ pz_master' =
                        Some({f[2] : f \in {g \in out_dir :
                                \E i \in 1..Len(flagged_files) : flagged_files[i] = g[1]}})
                  /\ pz_pc' = "cleanup"
                  /\ pz_del' = 1
                  /\ UNCHANGED <<temp_dir, pz_result, pz_exit>>
             ELSE /\ temp_dir' = Null
                  /\ pz_result' = Some("master_file")
                  /\ pz_exit' = Some(0)
                  /\ pz_pc' = "done"
                  /\ UNCHANGED <<pz_master, pz_del>>
    /\ UNCHANGED <<pz_zips, pz_idx, pz_pending, flagged_files, out_dir, pz_flagged, notPzVars>>

\* for temp_file in flagged_files: if os.path.exists(temp_file):
\* os.remove(temp_file).
PzRemove ==
    /\ pz_pc = "cleanup"
    /\ pz_del <= Len(flagged_files)
    /\ out_dir' = {f \in out_dir : f[1] # flagged_files[pz_del]}
    /\ pz_del' = pz_del + 1
    /\ UNCHANGED <<pz_zips, pz_pc, pz_idx, temp_dir, pz_pending, flagged_files, pz_flagged,
                   pz_success, pz_master, pz_result, pz_exit, notPzVars>>

\* os.remove raises OSError: no handler in process_zip_files or main, the
\* finally clause removes temp_extract and the exception leaves main.
PzRemoveRaises ==
    /\ pz_pc = "cleanup"
    /\ pz_del <= Len(flagged_files)
    /\ PathExists(out_dir, flagged_files[pz_del])
    /\ temp_dir' = Null
    /\ pz_result' = Some("raised")
    /\ pz_pc' = "raised"
    /\ UNCHANGED <<pz_zips, pz_idx, pz_pending, flagged_files, out_dir, pz_flagged,
                   pz_success, pz_master, pz_del, pz_exit, notPzVars>>

\* return master_file after the cleanup; main returns 0.
PzReturn ==
    /\ pz_pc = "cleanup"
    /\ pz_del > Len(flagged_files)
    /\ temp_dir' = Null
    /\ pz_result' = Some("master_file")
    /\ pz_exit' = Some(0)
    /\ pz_pc' = "done"
    /\ UNCHANGED <<pz_zips, pz_idx, pz_pending, flagged_files, out_dir, pz_flagged,
                   pz_success, pz_master, pz_del, notPzVars>>

PzNext ==
    \/ PzMainNoZips
    \/ PzEnter
    \/ PzExtractFails
    \/ PzExtractNoCsv
    \/ PzExtract
    \/ PzProcessCsv
    \/ PzCleanArchive
    \/ PzNoFlagged
    \/ PzCombine
    \/ PzRemove
    \/ PzRemoveRaises
    \/ PzReturn

(***************************************************************************)
(* windsurf_project/download_contracts.py: fetch_download polls with HEAD  *)
(* and calls download_file once the file is ready.                         *)
(***************************************************************************)
max_wait_attempts == 60

\* output_file on disk: absent, written in part, or written to the end.
FileStates == {"absent", "partial", "complete"}

WsIdle ==
    /\ ws_disk = "absent"
    /\ ws_pc = "idle"
    /\ ws_attempt = 1
    /\ ws_heads = 0
    /\ ws_gets = 0
    /\ ws_result = Null
    /\ ws_existed = FALSE

\* fetch_download is called; output_file may be there from an earlier call.
WsInit ==
    /\ ws_disk \in FileStates
    /\ ws_pc = "poll"
    /\ ws_attempt = 1
    /\ ws_heads = 0
    /\ ws_gets = 0
    /\ ws_result = Null
    /\ ws_existed = (ws_disk # "absent")

\* check_file_status returns False (not ready, or the HEAD request failed):
\* sleep, attempt += 1.
WsHeadNotReady ==
    /\ ws_pc = "poll"
    /\ ws_attempt <= max_wait_attempts
    /\ ws_heads' = ws_heads + 1
    /\ ws_attempt' = ws_attempt + 1
    /\ UNCHANGED <<ws_disk, ws_pc, ws_gets, ws_result, ws_existed, notWsVars>>

\* check_file_status returns True: download_file is called.
WsHeadReady ==
    /\ ws_pc = "poll"
    /\ ws_attempt <= max_wait_attempts
    /\ ws_heads' = ws_heads + 1
    /\ ws_pc' = "download"
    /\ UNCHANGED <<ws_disk, ws_attempt, ws_gets, ws_result, ws_existed, notWsVars>>

\* download_file: output_file exists, its base name is returned, and
\* fetch_download returns it.
WsFileExists ==
    /\ ws_pc = "download"
    /\ ws_disk # "absent"
    /\ ws_result' = Some("output_file")
    /\ ws_pc' = "done"
    /\ UNCHANGED <<ws_disk, ws_attempt, ws_heads, ws_gets, ws_existed, notWsVars>>

\* download_file: the GET fails before anything is written; None is
\* returned and fetch_download sleeps and polls again.
WsGetFails ==
    /\ ws_pc = "download"
    /\ ws_disk = "absent"
    /\ ws_gets' = ws_gets + 1
    /\ ws_attempt' = ws_attempt + 1
    /\ ws_pc' = "poll"
    /\ UNCHANGED <<ws_disk, ws_heads, ws_result, ws_existed, notWsVars>>

\* download_file: the body is streamed into output_file to the end.
WsStreamCompletes ==
    /\ ws_pc = "download"
    /\ ws_disk = "absent"
    /\ ws_gets' = ws_gets + 1
    /\ ws_disk' = "complete"
    /\ ws_result' = Some("output_file")
    /\ ws_pc' = "done"
    /\ UNCHANGED <<ws_attempt, ws_heads, ws_existed, notWsVars>>

\* download_file: the transport fails while the body is streamed; the
\* handler returns None and leaves what was written of output_file.
WsStreamFails ==
    /\ ws_pc = "download"
    /\ ws_disk = "absent"
    /\ ws_gets' = ws_gets + 1
    /\ ws_disk' = "partial"
    /\ ws_attempt' = ws_attempt + 1
    /\ ws_pc' = "poll"
    /\ UNCHANGED <<ws_heads, ws_result, ws_existed, notWsVars>>

\* The loop ends after max_wait_attempts attempts: return None.
WsExhausted ==
    /\ ws_pc = "poll"
    /\ ws_attempt > max_wait_attempts
    /\ ws_result' = Some("None")
    /\ ws_pc' = "done"
    /\ UNCHANGED <<ws_disk, ws_attempt, ws_heads, ws_gets, ws_existed, notWsVars>>

WsNext ==
    \/ WsHeadNotReady
    \/ WsHeadReady
    \/ WsFileExists
    \/ WsGetFails
    \/ WsStreamCompletes
    \/ WsStreamFails
    \/ WsExhausted

(***************************************************************************)
(* Specifications                                                          *)
(***************************************************************************)
InitRanges ==
    CdrInit /\ CombIdle /\ KwIdle /\ FlagIdle /\ FetchInitIdle /\ MainIdle /\ OrchIdle
    /\ FiltIdle /\ PaIdle /\ LayIdle /\ PzIdle /\ WsIdle
SpecRanges == InitRanges /\ [][CdrNext]_vars

InitCombine ==
    CombInit /\ CdrIdle /\ KwIdle /\ FlagIdle /\ FetchInitIdle /\ MainIdle /\ OrchIdle
    /\ FiltIdle /\ PaIdle /\ LayIdle /\ PzIdle /\ WsIdle
SpecCombine == InitCombine /\ [][CombNext]_vars

InitKeywords ==
    KwInit /\ CdrIdle /\ CombIdle /\ FlagIdle /\ FetchInitIdle /\ MainIdle /\ OrchIdle
    /\ FiltIdle /\ PaIdle /\ LayIdle /\ PzIdle /\ WsIdle
SpecKeywords == InitKeywords /\ [][KwNext]_vars

InitFlag ==
    FlagInit /\ CdrIdle /\ CombIdle /\ KwIdle /\ FetchInitIdle /\ MainIdle /\ OrchIdle
    /\ FiltIdle /\ PaIdle /\ LayIdle /\ PzIdle /\ WsIdle
SpecFlag == InitFlag /\ [][FlagNext]_vars

InitFetch ==
    FetchInit /\ MainIdle /\ CdrIdle /\ CombIdle /\ KwIdle /\ FlagIdle /\ OrchIdle /\ FiltIdle
    /\ PaIdle /\ LayIdle /\ PzIdle /\ WsIdle
SpecFetch == InitFetch /\ [][FetchNext]_vars

\* Every call made to the network returns or fails, and the code then takes
\* its next step: the steps of a call in progress are weakly fair.
SpecFetchFair == InitFetch /\ [][FetchNext]_vars /\ WF_vars(FetchStep)

InitDownload ==
    FetchInit /\ MainInit /\ CdrIdle /\ CombIdle /\ KwIdle /\ FlagIdle /\ OrchIdle /\ FiltIdle
    /\ PaIdle /\ LayIdle /\ PzIdle /\ WsIdle
SpecDownload == InitDownload /\ [][DownloadNext]_vars

InitOrch ==
    OrchInit /\ CdrIdle /\ CombIdle /\ KwIdle /\ FlagIdle /\ FetchInitIdle /\ MainIdle
    /\ FiltIdle /\ PaIdle /\ LayIdle /\ PzIdle /\ WsIdle
SpecOrch == InitOrch /\ [][OrchNext]_vars

\* The interpreter keeps running the orchestrator: its next step is taken.
SpecOrchFair == InitOrch /\ [][OrchNext]_vars /\ WF_vars(OrchNext)

InitFilter ==
    FiltInit /\ CdrIdle /\ CombIdle /\ KwIdle /\ FlagIdle /\ FetchInitIdle /\ MainIdle
    /\ OrchIdle /\ PaIdle /\ LayIdle /\ PzIdle /\ WsIdle
SpecFilter == InitFilter /\ [][FiltNext]_vars

InitFilterAll ==
    PaInit /\ CdrIdle /\ CombIdle /\ KwIdle /\ FlagIdle /\ FetchInitIdle /\ MainIdle
    /\ OrchIdle /\ FiltIdle /\ LayIdle /\ PzIdle /\ WsIdle
SpecFilterAll == InitFilterAll /\ [][PaNext]_vars

InitLayout ==
    LayInit /\ CdrIdle /\ CombIdle /\ KwIdle /\ FlagIdle /\ FetchInitIdle /\ MainIdle
    /\ OrchIdle /\ FiltIdle /\ PaIdle /\ PzIdle /\ WsIdle
SpecLayout == InitLayout /\ [][LayNext]_vars

InitZips ==
    PzInit /\ WsIdle /\ CdrIdle /\ CombIdle /\ KwIdle /\ FlagIdle /\ FetchInitIdle /\ MainIdle
    /\ OrchIdle /\ FiltIdle /\ PaIdle /\ LayIdle
SpecZips == InitZips /\ [][PzNext]_vars

InitWindsurf ==
    WsInit /\ PzIdle /\ CdrIdle /\ CombIdle /\ KwIdle /\ FlagIdle /\ FetchInitIdle /\ MainIdle
    /\ OrchIdle /\ FiltIdle /\ PaIdle /\ LayIdle
SpecWindsurf == InitWindsurf /\ [][WsNext]_vars

(***************************************************************************)
(* Properties                                                              *)
(***************************************************************************)
\* C1: for every start < end and interval_months >= 1 the returned sub-ranges,
\* in order, cover [start, end] without gaps or overlaps: the first starts at
\* start, each one starts the day after the previous one ends, and the last
\* one ends at end.
C1_PartitionCoversWholeSpan ==
    (cdr_pc = "done" /\ DateLT(start_date, end_date)) =>
        /\ Len(date_ranges) >= 1
        /\ date_ranges[1][1] = start_date
        /\ \A i \in 1..Len(date_ranges) : ~DateLT(date_ranges[i][2], date_ranges[i][1])
        /\ \A i \in 1..(Len(date_ranges) - 1) :
               date_ranges[i + 1][1] = PlusOneDay(date_ranges[i][2])
        /\ date_ranges[Len(date_ranges)][2] = end_date

InputRows == Concat(comb_files)
InputIds == {InputRows[i].id : i \in 1..Len(InputRows)}
InputAmountsOf(t) ==
    {InputRows[i].amount[1] : i \in {j \in 1..Len(InputRows) :
                                        InputRows[j].id = t /\ InputRows[j].amount # Null}}
MasterRowsOf(t) == {n \in 1..Len(master_file[1]) : master_file[1][n].id = t}

\* C2: whenever the master file is written, every award id of the input rows
\* has exactly one row in it, whose amount is the maximum amount among the
\* input rows of that id; no input id is missing from the master.
C2_OneRowPerIdWithMaxAmount ==
    (comb_pc = "done" /\ comb_result) =>
        \A t \in InputIds :
            /\ Cardinality(MasterRowsOf(t)) = 1
            /\ \A n \in MasterRowsOf(t) :
                  master_file[1][n].amount =
                      (IF InputAmountsOf(t) = {} THEN Null ELSE Some(MaxOf(InputAmountsOf(t))))

SeqToSet(q) == {q[i] : i \in 1..Len(q)}
ActiveSet == IF active_df = Null THEN {} ELSE SeqToSet(active_df[1])
FlaggedSet == IF flagged_df = Null THEN {} ELSE SeqToSet(flagged_df[1])

\* C3: once process_csv_file has run, a row of the loaded table is in the
\* active subset if and only if its end date parses and is strictly after
\* the cutoff date; a row whose end date is missing, unparseable or equal to
\* the cutoff is in neither the active subset nor the flagged output.
C3_ActiveIffAfterCutoff ==
    flag_pc = "done" =>
        /\ FlaggedSet \subseteq ActiveSet
        /\ \A i \in 1..Len(flag_table.rows) :
              LET cell == flag_table.rows[i].end
              IN  /\ i \in ActiveSet => (cell.kind = "date" /\ cell.day > today_date)
                  /\ (active_df # Null /\ cell.kind = "date" /\ cell.day > today_date)
                         => i \in ActiveSet

\* C3 witness: a run that kept a row in the active subset and the flagged
\* output, and left out a row ending on the cutoff date.
C3_Witness ==
    /\ flag_pc = "done"
    /\ FlaggedSet # {}
    /\ \E i \in 1..Len(flag_table.rows) :
          /\ flag_table.rows[i].end = [kind |-> "date", day |-> today_date]
          /\ i \notin ActiveSet

\* C5: once a call for a job has returned a local path, every later call
\* for the same job returns that path without any network request (no HEAD,
\* no GET); over any sequence of calls the body of a job is downloaded at
\* most once.
C5_FetchIsIdempotent ==
    /\ \A j \in Jobs : downloads[j] <= 1
    /\ f_prior =>
          /\ f_pc \in {"returned", "idle"}
          /\ f_result = Some(f_job)
          /\ heads = 0
          /\ gets = 0

\* C5 witness: a call that returned for a job whose body an earlier call
\* had downloaded.
C5_Witness ==
    /\ f_pc = "returned"
    /\ f_prior
    /\ downloads[f_job] = 1

\* C6: whenever fetch_download returns None for a job whose file did not
\* exist at call time, no file exists at the job's path afterwards; in
\* particular a file opened and then hit by a transport failure is gone.
C6_NoFileLeftAfterNone ==
    (f_pc = "returned" /\ f_result = Null /\ ~f_existed) => disk[f_job] = "absent"

\* C6 witness: a call returned None after it had opened the file.
C6_Witness ==
    /\ f_pc = "returned"
    /\ f_result = Null
    /\ f_opened
    /\ disk[f_job] = "absent"

\* C7: a call for a file not on disk makes at most 40 readiness checks and
\* always terminates; as long as no check has reported the file ready it
\* issues no GET, creates no file and does not raise, and it returns None.
C7_PollIsBoundedAndTerminates ==
    /\ [](heads <= max_attempts)
    /\ []((f_pc # "idle" /\ ~f_existed /\ ~f_ready) =>
            /\ f_pc \in {"poll", "returned"}
            /\ gets = 0
            /\ disk[f_job] = "absent"
            /\ (f_pc = "returned" => f_result = Null))
    /\ ((f_pc \in {"poll", "get", "stream"}) ~> (f_pc \in {"returned", "raised"}))

\* C7 witness: a call that returned None after 40 checks, none of them ready.
C7_Witness ==
    /\ f_pc = "returned"
    /\ ~f_existed
    /\ ~f_ready
    /\ heads = max_attempts
    /\ f_result = Null

\* C8: in the recovery pass a job is fetched again exactly when its archive
\* is not among the successful downloads and a url was obtained for it, and
\* then once; a job whose request returned no url is never handed to
\* fetch_download by the recovery pass.
C8_RecoveryFetchesOnlyJobsWithUrl ==
    \A j \in Jobs :
        /\ recovery_calls[j] <= 1
        /\ recovery_calls[j] >= 1 =>
              (j <= Len(file_urls) /\ file_urls[j] # Null /\ ~InSuccessful(j))
        /\ (/\ m_pc = "done"
            /\ Len(successful_downloads) < n_ranges
            /\ j <= n_ranges
            /\ file_urls[j] # Null
            /\ ~InSuccessful(j)) => recovery_calls[j] = 1

\* C9: main returns 0 whenever at least one archive of the requested ranges
\* was obtained, in the fetch loop or in the recovery pass, and 1 exactly
\* when none was.
C9_ExitCodeTellsWhetherAnyArchive ==
    m_pc = "done" => (m_exit = Some(1) <=> obtained = {})

\* C10: the exit code orchestrator.main returns is 1 if and only if no
\* (department, award type) item produced a master file, and 0 when at least
\* one did.
C10_ExitOneIffNothingSucceeded ==
    o_pc = "done" => (o_exit = Some(1) <=> masters_written = {})

\* The (department, award type) pairs that have an entry in the manifest.
ManifestPairs == {<<e[1], e[2]>> : e \in results}

\* C11: after a run the manifest has an entry for a (department, award type)
\* pair if and only if the transform stage produced a master file for that
\* pair in this run.
C11_ManifestIffMasterProduced ==
    o_pc = "done" => ManifestPairs = masters_written

\* The positions a department list can have.
DeptPositions == 1..(MaxDepartments + Len(AllDepartments))

\* C18: a failure while one department or award type is processed never
\* keeps the remaining ones from being processed: every known department of
\* the list is eventually handed to process_department.
C18_EveryKnownDepartmentIsProcessed ==
    \A i \in DeptPositions :
        (/\ o_pc = "dept"
         /\ i <= Len(o_departments)
         /\ o_departments[i] \in KnownDepartments) ~> (i \in entered)

\* The department list names a department that is no key of DEPARTMENTS.
HasUnknownDepartment ==
    /\ o_pc # "idle"
    /\ ~process_existing
    /\ \E i \in 1..Len(o_departments) : o_departments[i] \notin KnownDepartments

\* C19: when a requested department is not in the fixed department set, the
\* run ends with a non-zero exit code and performs no download, file-system
\* or other I/O.
C19_UnknownDepartmentIsFatalBeforeIO ==
    HasUnknownDepartment =>
        /\ io_log = {}
        /\ o_pc = "done" => o_exit \notin {Null, Some(0)}

\* The amount of a row of the master file, as a number or NaN.
NumericAmount(i) == ToNumeric(filt_table.rows[i].amount)

\* The row labels of the written output file.
OutputLabels == IF filt_output = Null THEN {} ELSE SeqToSet(filt_output[1])

\* C12: every row of the output has a numeric amount >= min_amount, so a row
\* whose amount is no number or is below min_amount never appears in it; if
\* no row passes the amount filter the routine returns None and writes no
\* output file.
C12_OutputRowsReachMinimumAmount ==
    filt_pc = "done" =>
        /\ \A i \in OutputLabels :
              NumericAmount(i) # Null /\ NumericAmount(i)[1] >= min_amount
        /\ (\A i \in 1..Len(filt_table.rows) :
               NumericAmount(i) = Null \/ NumericAmount(i)[1] < min_amount)
             => (filt_result = Null /\ filt_output = Null)

\* C12 witness: an output file was written from a master file that also
\* holds a row without a numeric amount.
C12_Witness ==
    /\ filt_pc = "done"
    /\ filt_output # Null
    /\ \E i \in 1..Len(filt_table.rows) :
          /\ NumericAmount(i) = Null
          /\ filt_table.rows[i].desc # Null
          /\ i \notin OutputLabels

\* The rows that passed the amount filter and the keyword filter.
PassedBoth ==
    SeqToSet(KeywordFiltered(filt_table.rows,
                             AmountFiltered(filt_table.rows, min_amount)))

\* C13: with an id column, the output holds at most one row per award id,
\* the kept row has the maximum amount among the rows of its id that passed
\* the amount and keyword filters, and the output rows are in non-increasing
\* order of amount.
C13_OneRowPerIdMaxAmountSorted ==
    (filt_pc = "done" /\ filt_output # Null /\ IdColumn \in filt_table.columns) =>
        /\ \A a, b \in 1..Len(filt_output[1]) :
              (a # b /\ filt_table.rows[filt_output[1][a]].id # Null) =>
                  filt_table.rows[filt_output[1][a]].id
                      # filt_table.rows[filt_output[1][b]].id
        /\ \A i \in OutputLabels : \A j \in PassedBoth :
              filt_table.rows[j].id = filt_table.rows[i].id =>
                  NumericAmount(i)[1] >= NumericAmount(j)[1]
        /\ \A j \in PassedBoth : \E i \in OutputLabels :
              filt_table.rows[i].id = filt_table.rows[j].id
        /\ \A a \in 1..(Len(filt_output[1]) - 1) :
              NumericAmount(filt_output[1][a])[1] >= NumericAmount(filt_output[1][a + 1])[1]

\* C13 witness: two rows of one award id with different amounts passed both
\* filters, the smaller one first, and the output holds the larger one.
C13_Witness ==
    /\ filt_pc = "done"
    /\ filt_output # Null
    /\ IdColumn \in filt_table.columns
    /\ \E i, j \in PassedBoth :
          /\ i < j
          /\ filt_table.rows[i].id = filt_table.rows[j].id
          /\ filt_table.rows[i].id # Null
          /\ NumericAmount(i)[1] < NumericAmount(j)[1]
          /\ filt_output[1] = <<j>>

\* C14: the output is sorted by non-increasing amount, and two output rows of
\* equal amount stand in the order they have in the input master file.
C14_TiesKeepInputOrder ==
    (filt_pc = "done" /\ filt_output # Null) =>
        \A a, b \in 1..Len(filt_output[1]) :
            a < b =>
                /\ NumericAmount(filt_output[1][a])[1] >= NumericAmount(filt_output[1][b])[1]
                /\ NumericAmount(filt_output[1][a]) = NumericAmount(filt_output[1][b])
                     => filt_output[1][a] < filt_output[1][b]

\* C17: every invocation writes exactly one summary; its files_processed is
\* the number of master files found, its files_with_matches the number of
\* filtered files returned, and its filtered_files lists exactly those.
C17_OneSummaryPerInvocation ==
    pa_pc = "done" =>
        /\ Len(summaries) = 1
        /\ summaries[1].files_processed = Len(csv_files)
        /\ summaries[1].files_with_matches = Len(filtered_files)
        /\ summaries[1].filtered_files = filtered_files

\* C20: every archive the fetch stage stored for the pair lies in the
\* directory and under the name pattern in which the transform stage looks
\* for the pair's archives, and is among the archives the transform stage
\* processes.
C20_FetchedArchivesReachTransform ==
    /\ \A p \in lay_stored :
          p.dir = zip_dir /\ NameMatches(p.name, lay_pair[1], lay_pair[2])
    /\ lay_pc = "done" => lay_stored \subseteq lay_seen

\* The input rows of award id t, in concatenation order.
InputRowsOf(t) == SelectSeq(InputRows, LAMBDA r : r.id = t)

\* The monetary columns other than the amount column that the input has.
OtherMonetaryColumns == {"obligated"} \cap UNION {DOMAIN InputRows[i] : i \in 1..Len(InputRows)}

\* C15: in the master row of an award id the description (as recipient and
\* agency) is the first non-null value in concatenation order among the
\* input rows of that id, and every monetary column of the input is carried
\* as the maximum over those rows.
C15_MasterRowAggregates ==
    (comb_pc = "done" /\ comb_result) =>
        \A t \in InputIds :
            /\ MasterRowsOf(t) # {}
            /\ \A n \in MasterRowsOf(t) :
                  /\ master_file[1][n].desc = AggFirst(Column(InputRowsOf(t), "desc"))
                  /\ master_file[1][n].amount = AggMax(Column(InputRowsOf(t), "amount"))
                  /\ \A c \in OtherMonetaryColumns :
                        /\ c \in DOMAIN master_file[1][n]
                        /\ master_file[1][n][c] = AggMax(Column(InputRowsOf(t), c))

\* Months counted from year 0.
MonthIndex(d) == d[1] * 12 + d[2]

\* The range spans exactly n calendar months: the day after its end lies n
\* months after its start, on the same day of the month (or on the last day
\* of that month if the month is shorter).
SpansMonths(range, n) ==
    LET next == PlusOneDay(range[2])
    IN  /\ MonthIndex(next) - MonthIndex(range[1]) = n
        /\ next[3] = Min(range[1][3], DaysInMonth(next[1], next[2]))

EventsOf(kind) == {i \in 1..Len(m_log) : m_log[i][1] = kind}

\* The number of events of the given kind that m_log holds for job.
EventCount(kind, job) == Cardinality({i \in EventsOf(kind) : m_log[i][2] = job})

\* C21: every date range is requested exactly once whatever the outcome of
\* its request (a failed request is not retried), a job whose request
\* returned None is never fetched in the main fetch loop, and once the main
\* fetch loop has ended every range was requested and every job that got a
\* url was fetched once in that loop.
C21_FailedRequestSkipsOnlyItsFetch ==
    /\ \A job \in 1..Len(file_urls) :
        /\ EventCount("request", job) = 1
        /\ file_urls[job] = Null => EventCount("fetch", job) = 0
    /\ m_pc \in {"recover", "done"} =>
        /\ Len(file_urls) = n_ranges
        /\ \A job \in 1..n_ranges :
            file_urls[job] # Null => EventCount("fetch", job) = 1

C21_Witness ==
    /\ m_pc \in {"recover", "done"}
    /\ n_ranges = 2
    /\ file_urls[1] = Null
    /\ file_urls[2] # Null
    /\ EventCount("fetch", 2) = 1

\* C24: in the log of the run no request comes after a fetch or a recovery
\* call, no fetch of the main loop comes after a recovery call, and both the
\* requests and the fetches of the main loop are made in increasing order of
\* the sub-ranges.
C24_RequestsThenFetchesThenRecovery ==
    \A i, j \in 1..Len(m_log) :
        i < j =>
            /\ m_log[j][1] = "request" => m_log[i][1] = "request"
            /\ m_log[i][1] = "recover" => m_log[j][1] = "recover"
            /\ (m_log[i][1] = m_log[j][1] /\ m_log[i][1] \in {"request", "fetch"})
                    => m_log[i][2] < m_log[j][2]

C24_Witness ==
    /\ m_pc = "done"
    /\ Cardinality(EventsOf("request")) = 2
    /\ Cardinality(EventsOf("fetch")) = 2
    /\ Cardinality(EventsOf("recover")) >= 1

\* C22: whenever the files combined do not all have the same columns,
\* combine_csv_files returns False.
C22_SchemaMismatchReturnsFalse ==
    (/\ comb_pc = "done"
     /\ \E i, j \in 1..Len(comb_columns) : comb_columns[i] # comb_columns[j])
        => comb_result = FALSE

\* The download stage of entry i of stage_log reported success.
ReportedSuccess(i) == stage_log[i][4] = 0

\* The transform stage was run for the pair of entry i of stage_log: the
\* next entry is the transform call of the same department and award type.
TransformFollows(i) ==
    /\ i < Len(stage_log)
    /\ stage_log[i + 1][1] = "transform"
    /\ stage_log[i + 1][2] = stage_log[i][2]
    /\ stage_log[i + 1][3] = stage_log[i][3]

\* C25: in process_department without skip_download the transform stage is
\* entered for a pair exactly when the download stage returned the success
\* code for it: once the orchestrator has moved past a download call, the
\* transform call for the pair follows it if and only if the code was 0.
C25_TransformIffDownloadSucceeded ==
    \A i \in 1..Len(stage_log) :
        stage_log[i][1] = "download" =>
            IF i = Len(stage_log) /\ o_pc = "transform"
            THEN ReportedSuccess(i)
            ELSE (i < Len(stage_log) \/ o_pc \in {"type", "dept", "done"})
                    => (TransformFollows(i) <=> ReportedSuccess(i))

\* C23: when process_zip_files has returned, the flagged files are all gone
\* if the combine call returned True and all in place if it returned False;
\* and after a successful combine the call returns the master path: a
\* removal that fails does not make it raise.
C23_CleanupIffCombinedAndNeverFatal ==
    /\ (pz_pc = "done" /\ pz_success = Some(TRUE)) =>
            \A i \in 1..Len(flagged_files) : ~PathExists(out_dir, flagged_files[i])
    /\ (pz_pc = "done" /\ pz_success = Some(FALSE)) =>
            \A i \in 1..Len(flagged_files) : PathExists(out_dir, flagged_files[i])
    /\ (pz_pc \in {"done", "raised"} /\ pz_success = Some(TRUE)) =>
            pz_result = Some("master_file")

\* C26: while the tables of an archive are being processed the extraction
\* directory holds only entries of that archive, no table is flagged under
\* two archives, and once process_zip_files has returned or raised the
\* extraction directory does not exist.
C26_ExtractionDirectoryIsolated ==
    /\ pz_pc = "tables" => \A e \in temp_dir[1] : e[2] = pz_idx
    /\ \A x, y \in pz_flagged : x[2] = y[2] => x[1] = y[1]
    /\ pz_pc \in {"done", "raised"} => temp_dir = Null

\* C29: main returns 0 only if combine_csv_files returned True in this call
\* and wrote the master file.
C29_ExitZeroOnlyWithMasterWritten ==
    pz_exit = Some(0) => (pz_success = Some(TRUE) /\ pz_master # Null)

\* C30: no path occurs twice in flagged_files, until the combine step the
\* output of every table that was flagged still holds that table's rows,
\* and after a successful combine the master was built from every flagged
\* table.
C30_NoFlaggedRowsLost ==
    /\ \A i, j \in 1..Len(flagged_files) : i # j => flagged_files[i] # flagged_files[j]
    /\ pz_pc \in {"loop", "tables"} =>
            \A x \in pz_flagged : <<FlaggedPath(x[2]), x[2]>> \in out_dir
    /\ pz_success = Some(TRUE) => \A x \in pz_flagged : x[2] \in pz_master[1]

\* C27: a call of fetch_download that finds output_file on disk returns its
\* name without any HEAD or GET request.
C27_ExistingFileReturnedWithoutRequest ==
    (ws_pc = "done" /\ ws_existed) =>
        (ws_result = Some("output_file") /\ ws_heads = 0 /\ ws_gets = 0)

\* C28: a file name that fetch_download returns denotes a file that was
\* streamed to the end.
C28_ReturnedFileIsComplete ==
    ws_result = Some("output_file") => ws_disk = "complete"

\* Keyword kw occurs in text as a whole word, letter case ignored.
WholeWordOccurs(text, kw) ==
    \E i \in 1..Len(text) :
        /\ LiteralAt(text, i, kw)
        /\ Boundary(text, i)
        /\ Boundary(text, i + Len(kw))

\* C4: a description matches the compiled pattern exactly when some keyword
\* of the list occurs in it as a whole word (a word boundary on both sides),
\* whatever the letter case; an occurrence embedded in a longer token, such
\* as "nondiversity" for diversity, does not make it match.
C4_MatchIffWholeWord ==
    kw_pc = "done" =>
        (kw_match <=>
            \E j \in 1..Len(Keywords) : WholeWordOccurs(Concat(kw_desc), Keywords[j]))

====
